---- MODULE Spec2Model ----
(***************************************************************************)
(* Application-command registry, registration surface, lookup and the     *)
(* connect-time deployment procedure of discord.ext.commands               *)
(* (application_core.py, application_bot.py, slash_command_group.py).      *)
(***************************************************************************)
EXTENDS Integers, Sequences, FiniteSets, TLC

\* ------------------------------------------------------------------ bounds
\* Largest total number of entries held by all registries together.
MaxCmds == 2
\* Largest number of entries in one bulk-upsert response.
MaxResp == 2

\* ------------------------------------------------------------ input domains
Names == {"a", "b"}
GuildIds == {1, 2}
PlatformIds == {1, 2}

\* `guild: int = None`: the absent guild argument / absent guild_id.
None == -1

\* The most tasks other than the tracked deployment run left unfinished at once.
MaxTasks == 1

VARIABLES
    all_global_application_commands,  \* ApplicationCommandsDict.__data of the global registry
    all_guild_application_commands,   \* insertion-ordered dict guild id -> registry data
    pc,                               \* position of the deployment coroutine
    iter,                             \* the dict iterator of the guild loop: position, size at creation
    sent,                             \* bulk-upsert calls issued by the current run
    tasks,                            \* the other unfinished tasks of the event loop
    last                              \* the most recent operation, its inputs and outcome

vars == <<all_global_application_commands, all_guild_application_commands, pc, iter, sent,
          tasks, last>>

\* ------------------------------------------------------------ command objects
\* A freshly constructed command: _id is 0.  The Slash Command is the class
\* of application_commands/slash_command.py, the one that has a json property.
SlashCommand(n) == [kind |-> "slash", name |-> n, _id |-> 0, guild_id |-> None]

UserCommand(n) == [kind |-> "user", name |-> n, _id |-> 0, guild_id |-> None]

MessageCommand(n) == [kind |-> "message", name |-> n, _id |-> 0, guild_id |-> None]

\* A group instance; guild_id is the class attribute set by GroupMeta.
SlashCommandGroup(n, g) == [kind |-> "group", name |-> n, _id |-> 0, guild_id |-> g]

\* Direct child commands and sub-groups declared on every group type of the model.
GroupCommandNames == {"c"}

SubGroupNames == {"s"}

SubGroupCommandNames == {"d"}

\* The `id` attribute: a property returning _id on the three command variants,
\* an instance attribute copied from the class (0) on a group.
Id(e) == IF e.kind = "group" THEN 0 ELSE e._id

\* A variant of is_guild that holds of no group.
is_guild_never(e) == FALSE

\* SlashCommandGroup.is_guild: `not self.guild_id is None`.
is_guild(e) == e.guild_id # None

\* The absent result (Python None) and the caller's default, as entries.
NoneVal == [kind |-> "None", name |-> "", _id |-> 0, guild_id |-> None]

Sentinel == [kind |-> "default", name |-> "", _id |-> 0, guild_id |-> None]

\* Objects handed to the add_*_command methods: commands of the three variants.
Objects ==
    {SlashCommand(n) : n \in Names} \cup {UserCommand(n) : n \in Names}
        \cup {MessageCommand(n) : n \in Names}

Groups == {SlashCommandGroup(n, g) : n \in Names, g \in GuildIds \cup {None}}

\* --------------------------------------------------- ApplicationCommandsDict
add_command(data, command) == Append(data, command)

all_commands(data) == data

all_message_commands(data) == SelectSeq(data, LAMBDA e : e.kind = "message")

all_user_commands(data) == SelectSeq(data, LAMBDA e : e.kind = "user")

\* A variant of all_slash_commands that takes the groups for Slash Commands too.
all_slash_commands_and_groups(data) ==
    SelectSeq(data, LAMBDA e : e.kind \in {"slash", "group"})

all_slash_commands(data) == SelectSeq(data, LAMBDA e : e.kind = "slash")

all_slash_command_group(data) == SelectSeq(data, LAMBDA e : e.kind = "group")

\* Index of the entry a dict comprehension keeps for a key: the last one.
LastIndex(indices) ==
    IF indices = {} THEN 0 ELSE CHOOSE i \in indices : \A j \in indices : j <= i

\* The first of a set of indices, 0 when there is none.
FirstIndex(indices) ==
    IF indices = {} THEN 0 ELSE CHOOSE i \in indices : \A j \in indices : i <= j

\* { i.name : i for i in data }, as the index of the value kept for name n.
all_commands_mapping_by_names(data, n) == LastIndex({i \in DOMAIN data : data[i].name = n})

\* { i.id : i for i in data }, as the index of the value kept for id k.
all_commands_mapping_by_ids(data, k) == LastIndex({i \in DOMAIN data : Id(data[i]) = k})

get_by_name(data, n) == all_commands_mapping_by_names(data, n)

\* Keys of a lookup: a str or an int.
StrKey(s) == [t |-> "str", s |-> s, i |-> 0]

IntKey(i) == [t |-> "int", s |-> "", i |-> i]

NameHit(data, key) == key.t = "str" /\ all_commands_mapping_by_names(data, key.s) # 0

IdHit(data, key) == key.t = "int" /\ all_commands_mapping_by_ids(data, key.i) # 0

\* __getitem__: [raised |-> KeyError raised, val |-> value returned].  The
\* by-name branch evaluates the subscript and falls off the end of the method.
getitem(data, key) ==
    IF NameHit(data, key) THEN [raised |-> FALSE, val |-> NoneVal]
    ELSE IF IdHit(data, key)
         THEN [raised |-> FALSE, val |-> data[all_commands_mapping_by_ids(data, key.i)]]
         ELSE [raised |-> TRUE, val |-> NoneVal]

\* get: evaluates self[key] and returns only in the except branch.
get(data, key, default) ==
    IF getitem(data, key).raised THEN default ELSE NoneVal

\* ------------------------------------------- guild-id -> registry mapping
GuildIndex(guilds, g) ==
    IF \E i \in DOMAIN guilds : guilds[i].gid = g
    THEN CHOOSE i \in DOMAIN guilds : guilds[i].gid = g
    ELSE 0

HasGuild(guilds, g) == GuildIndex(guilds, g) # 0

GuildData(guilds, g) == guilds[GuildIndex(guilds, g)].data

GuildKeys(guilds) == [i \in DOMAIN guilds |-> guilds[i].gid]

\* A variant of GuildAdd that creates the guild's registry on every call,
\* replacing the one the guild has.
GuildAddFresh(guilds, g, command) ==
    IF HasGuild(guilds, g)
    THEN [guilds EXCEPT ![GuildIndex(guilds, g)].data = add_command(<<>>, command)]
    ELSE Append(guilds, [gid |-> g, data |-> add_command(<<>>, command)])

\* The common tail of every registration: append to the guild's registry,
\* creating the registry first when the guild has none.
GuildAdd(guilds, g, command) ==
    IF HasGuild(guilds, g)
    THEN [guilds EXCEPT ![GuildIndex(guilds, g)].data = add_command(@, command)]
    ELSE Append(guilds, [gid |-> g, data |-> add_command(<<>>, command)])

TotalEntries(glob, guilds) ==
    LET RECURSIVE Sum(_)
        Sum(i) == IF i = 0 THEN 0 ELSE Len(guilds[i].data) + Sum(i - 1)
    IN Len(glob) + Sum(Len(guilds))

\* --------------------------------------------------- ApplicationGroupMixin
Outcome(err, glob, guilds) == [err |-> err, glob |-> glob, guilds |-> guilds]

\* `command.name in <registry>.all_slash_commands`: a str tested for membership
\* in a list of SlashCommand objects, which define no __eq__ against str.
NameInCommandList(name, commands) == FALSE

\* A variant of NameRegistered that tests the name the way the guild branch
\* does, against the list of Slash Command objects.
NameInSlashCommands(data, name) == NameInCommandList(name, all_slash_commands(data))

\* `command.name in <registry>.all_commands_mapping_by_names.keys()`
NameRegistered(data, name) == all_commands_mapping_by_names(data, name) # 0

\* A variant of add_slash_command that creates the guild's registry before
\* it checks the name.
add_slash_command_creating_first(glob, guilds, command, guild) ==
    LET created == IF guild # None /\ ~HasGuild(guilds, guild)
                   THEN Append(guilds, [gid |-> guild, data |-> <<>>])
                   ELSE guilds
    IN  IF command.kind # "slash" THEN Outcome("TypeError", glob, guilds)
        ELSE IF NameRegistered(glob, command.name)
        THEN Outcome("CommandRegistrationError", glob, created)
        ELSE IF guild = None THEN Outcome("none", add_command(glob, command), guilds)
        ELSE Outcome("none", glob, GuildAdd(created, guild, command))

add_slash_command(glob, guilds, command, guild) ==
    IF command.kind # "slash" THEN Outcome("TypeError", glob, guilds)
    ELSE IF NameRegistered(glob, command.name)
    THEN Outcome("CommandRegistrationError", glob, guilds)
    ELSE IF guild = None THEN Outcome("none", add_command(glob, command), guilds)
    ELSE IF HasGuild(guilds, guild)
            /\ NameInCommandList(command.name, all_slash_commands(GuildData(guilds, guild)))
    THEN Outcome("CommandRegistrationError", glob, guilds)
    ELSE Outcome("none", glob, GuildAdd(guilds, guild, command))

add_message_command(glob, guilds, command, guild) ==
    IF command.kind # "message" THEN Outcome("TypeError", glob, guilds)
    ELSE IF guild # None THEN Outcome("none", glob, GuildAdd(guilds, guild, command))
    ELSE Outcome("none", add_command(glob, command), guilds)

\* `self.all_message_commands` is read on the mixin, which has no such
\* attribute (only ApplicationCommandsDict has): the read raises.
add_user_command(glob, guilds, command, guild) ==
    IF command.kind # "user" THEN Outcome("TypeError", glob, guilds)
    ELSE Outcome("AttributeError", glob, guilds)

add_slash_group(glob, guilds, cog) ==
    IF is_guild(cog) THEN Outcome("none", glob, GuildAdd(guilds, cog.guild_id, cog))
    ELSE Outcome("none", add_command(glob, cog), guilds)

\* isinstance(obj, ApplicationGroupMixin): no command variant and no group
\* derives from the mixin, and None does not either.
IsApplicationGroupMixin(obj) == FALSE

\* Path lookup; `names` is name.split().  One token is the fast path; for
\* more, the remaining hops are taken only through an ApplicationGroupMixin.
get_global_slash_command(glob, names) ==
    IF Len(names) = 1 THEN get(glob, StrKey(names[1]), NoneVal)
    ELSE IF names = <<>> THEN NoneVal
    ELSE LET obj == get(glob, StrKey(names[1]), NoneVal)
         IN  IF ~IsApplicationGroupMixin(obj) THEN obj ELSE NoneVal

\* ------------------------------------------------------------- operations
\* No interaction: the call was not a dispatch.
NoData == [type |-> "", ctype |-> 0, id |-> 0, name |-> "", guild_id |-> None,
           options |-> <<>>, target_id |-> 0]

NoKey == [t |-> "none", s |-> "", i |-> 0]

Call(op) ==
    [op |-> op, command |-> NoneVal, guild |-> None, err |-> "none",
     key |-> NoKey, default |-> NoneVal, ret |-> NoneVal, names |-> <<>>, r |-> <<>>,
     after |-> "", runs |-> 0, data |-> NoData, handler |-> "", invoked |-> <<>>,
     events |-> <<>>, attr |-> "", args |-> <<>>, obj |-> <<>>]

\* A registration call and its outcome.  With `detail`, `last` records every
\* call, with the arguments of a call that passed its isinstance check;
\* without, it records the calls that returned, and a call that raised
\* leaves it as it is.
Register(op, outcome, command, guild, detail) ==
  \E res \in {outcome} :
    /\ res.err # "none"
         \/ TotalEntries(all_global_application_commands, all_guild_application_commands) < MaxCmds
    /\ all_global_application_commands' = res.glob
    /\ all_guild_application_commands' = res.guilds
    /\ last' = IF detail /\ res.err # "TypeError"
               THEN [Call(op) EXCEPT !.command = command, !.guild = guild, !.err = res.err]
               ELSE IF detail \/ res.err = "none" THEN [Call(op) EXCEPT !.err = res.err]
               ELSE last
    /\ UNCHANGED <<pc, iter, sent, tasks>>

\* The objects handed to the method expecting `kind`: the commands of that
\* variant and one object of another class (the isinstance check reads
\* nothing else of it).
Arguments(kind) ==
    {o \in Objects : o.kind = kind} \cup {CHOOSE o \in Objects : o.kind # kind}

\* The guild arguments tried with a command handed to a method expecting `kind`:
\* an object failing the isinstance check raises before guild is read.
GuildArgs(command, kind) == IF command.kind = kind THEN GuildIds \cup {None} ELSE {None}

AddSlashCommand(detail) ==
    \E command \in Arguments("slash") : \E guild \in GuildArgs(command, "slash") :
        Register("add_slash_command",
                 add_slash_command(all_global_application_commands,
                                   all_guild_application_commands, command, guild),
                 command, guild, detail)

AddMessageCommand(detail) ==
    \E command \in Arguments("message") : \E guild \in GuildArgs(command, "message") :
        Register("add_message_command",
                 add_message_command(all_global_application_commands,
                                     all_guild_application_commands, command, guild),
                 command, guild, detail)

AddUserCommand(detail) ==
    \E command \in Arguments("user") : \E guild \in GuildArgs(command, "user") :
        Register("add_user_command",
                 add_user_command(all_global_application_commands,
                                  all_guild_application_commands, command, guild),
                 command, guild, detail)

AddSlashGroup(detail) ==
    \E cog \in Groups :
        Register("add_slash_group",
                 add_slash_group(all_global_application_commands,
                                 all_guild_application_commands, cog),
                 cog, cog.guild_id, detail)

Keys == {StrKey(n) : n \in Names} \cup {IntKey(i) : i \in PlatformIds \cup {0}}

Scopes == GuildIds \cup {None}

ScopeData(scope) ==
    IF scope = None THEN all_global_application_commands
    ELSE IF HasGuild(all_guild_application_commands, scope)
    THEN GuildData(all_guild_application_commands, scope)
    ELSE <<>>

\* registry.get(key, default) on the global registry or an existing guild registry
Get ==
    \E scope \in Scopes, key \in Keys, default \in {NoneVal, Sentinel} :
        /\ scope = None \/ HasGuild(all_guild_application_commands, scope)
        /\ last' = [Call("get") EXCEPT !.guild = scope, !.key = key, !.default = default,
                                       !.ret = get(ScopeData(scope), key, default)]
        /\ UNCHANGED <<all_global_application_commands, all_guild_application_commands,
                       pc, iter, sent, tasks>>

Paths ==
    {<<n>> : n \in Names} \cup {<<n, c>> : n \in Names, c \in GroupCommandNames \cup Names}

GetGlobalSlashCommand ==
    \E names \in Paths :
        /\ last' = [Call("get_global_slash_command") EXCEPT
                        !.names = names,
                        !.ret = get_global_slash_command(all_global_application_commands, names)]
        /\ UNCHANGED <<all_global_application_commands, all_guild_application_commands,
                       pc, iter, sent, tasks>>

\* ------------------------------------------------- deployment procedure
\* The command-type discriminant of the `json` payload.
CommandType(e) ==
    CASE e.kind = "slash" -> 1
      [] e.kind = "group" -> 1
      [] e.kind = "user" -> 2
      [] e.kind = "message" -> 3

\* The registration payload of an entry (its type and name).
json(e) == [type |-> CommandType(e), name |-> e.name]

JsonAll(data) == [i \in DOMAIN data |-> json(data[i])]

\* The global batch: every entry of all_commands, then every group that is
\* not guild-scoped.
GlobalBatch(glob) ==
    JsonAll(all_commands(glob))
        \o JsonAll(SelectSeq(all_slash_command_group(glob), LAMBDA g : ~is_guild(g)))

GuildBatch(data) == JsonAll(all_commands(data))

\* discord.utils.get(seq, name=n): the first element with that name.
utils_get(data, n) == FirstIndex({i \in DOMAIN data : data[i].name = n})

\* A variant of BackfillGlobal that writes the id of the first response
\* entry to every entry of the registry.
BackfillGlobalEvery(data, r) ==
    IF r = <<>> THEN data
    ELSE [i \in DOMAIN data |-> [data[i] EXCEPT !._id = Head(r).id]]

\* Back-fill of the global scope: `if(cmd_): cmd_._id = cmd_id` per entry.
RECURSIVE BackfillGlobal(_, _)
BackfillGlobal(data, r) ==
    IF r = <<>> THEN data
    ELSE LET i == utils_get(all_commands(data), Head(r).name)
         IN  BackfillGlobal(IF i # 0 THEN [data EXCEPT ![i]._id = Head(r).id] ELSE data,
                            Tail(r))

\* A variant of BackfillGuild that creates a local entry for a response entry
\* naming no command of the guild.
RECURSIVE BackfillGuildCreating(_, _)
BackfillGuildCreating(data, r) ==
    IF r = <<>> THEN [data |-> data, err |-> "none"]
    ELSE LET i == get_by_name(data, Head(r).name)
         IN  IF i = 0
             THEN BackfillGuildCreating(
                      Append(data, [SlashCommand(Head(r).name) EXCEPT !._id = Head(r).id]),
                      Tail(r))
             ELSE BackfillGuildCreating([data EXCEPT ![i]._id = Head(r).id], Tail(r))

\* Back-fill of a guild scope: `cmd = get_by_name(..); cmd._id = cmd_id` per
\* entry; the assignment on None raises and ends the loop.
RECURSIVE BackfillGuild(_, _)
BackfillGuild(data, r) ==
    IF r = <<>> THEN [data |-> data, err |-> "none"]
    ELSE LET i == get_by_name(data, Head(r).name)
         IN  IF i = 0 THEN [data |-> data, err |-> "AttributeError"]
             ELSE BackfillGuild([data EXCEPT ![i]._id = Head(r).id], Tail(r))

Upsert(scope, batch) == [scope |-> scope, batch |-> batch]

NoIter == [idx |-> 0, len |-> 0]

\* A step of `for guild_id, commands in self.all_guild_application_commands.items()`
\* from position idx of an iterator created over len keys: the next state of
\* the coroutine, the call it issues and the error it raises.
GuildLoop(guilds, idx, len) ==
    IF Len(guilds) # len
    THEN [pc |-> "failed", iter |-> [idx |-> idx, len |-> len], calls |-> <<>>,
          err |-> "RuntimeError"]
    ELSE IF idx = len
    THEN [pc |-> "done", iter |-> [idx |-> idx, len |-> len], calls |-> <<>>, err |-> "none"]
    ELSE [pc |-> "await_guild", iter |-> [idx |-> idx + 1, len |-> len],
          calls |-> <<Upsert(guilds[idx + 1].gid, GuildBatch(guilds[idx + 1].data))>>,
          err |-> "none"]

\* The command types a response entry can carry: those of the entries a
\* registry can hold (slash command or group, message command).
ResponseTypes == {1, 3}

\* A response of the platform: entries with pairwise distinct ids, and
\* pairwise distinct names within one command type.
WellFormed(r) ==
    \A i, j \in DOMAIN r :
        i # j => /\ r[i].id # r[j].id
                 /\ r[i].name # r[j].name \/ r[i].type # r[j].type

ResponseEntries == [id : PlatformIds, name : Names, type : ResponseTypes]

RECURSIVE ResponsesOfLen(_)
ResponsesOfLen(n) ==
    IF n = 0 THEN {<<>>}
    ELSE {Append(r, e) : r \in ResponsesOfLen(n - 1), e \in ResponseEntries}

Responses == {r \in UNION {ResponsesOfLen(n) : n \in 0..MaxResp} : WellFormed(r)}

\* self.extra_events after __init__: one listener per event name.
extra_events(ev) ==
    CASE ev = "on_connect" -> <<"_deploy_application_commands">>
      [] ev = "on_interaction" -> <<"_listen_application_commands">>
      [] OTHER -> <<>>

\* A variant of dispatch that schedules every listener twice.
dispatch_twice(event_name) ==
    extra_events("on_" \o event_name) \o extra_events("on_" \o event_name)

\* dispatch(event_name): the listeners scheduled, one run each.
dispatch(event_name) == extra_events("on_" \o event_name)

\* on_connect: the event schedules its listeners; the deployment coroutine
\* runs to its first await, the global bulk upsert.  `after` is the position
\* the previous run was left in, `runs` the number of runs scheduled.
Connect ==
    /\ pc \in {"idle", "done", "failed"}
    /\ dispatch("connect") # <<>>
    /\ pc' = "await_global"
    /\ iter' = NoIter
    /\ sent' = <<Upsert(None, GlobalBatch(all_global_application_commands))>>
    /\ last' = [Call("connect") EXCEPT !.after = pc, !.runs = Len(dispatch("connect"))]
    /\ UNCHANGED <<all_global_application_commands, all_guild_application_commands, tasks>>

\* The global call returns r, one of rs: back-fill, then enter the guild loop.
GlobalResponseWith(rs) ==
    /\ pc = "await_global"
    /\ \E r \in rs :
        \E step \in {GuildLoop(all_guild_application_commands, 0,
                               Len(all_guild_application_commands))} :
            /\ all_global_application_commands' =
                   BackfillGlobal(all_global_application_commands, r)
            /\ pc' = step.pc
            /\ iter' = step.iter
            /\ sent' = sent \o step.calls
            /\ last' = [Call("global_response") EXCEPT !.r = r, !.err = step.err]
            /\ UNCHANGED <<all_guild_application_commands, tasks>>

GlobalResponse == GlobalResponseWith(Responses)

\* The state the coroutine is left in when the call of the guild at position
\* idx returns r: the guild's ids back-filled, then either the exception of
\* the back-fill or the next step of the loop.
GuildStep(guilds, idx, len, r) ==
    LET fill == BackfillGuild(guilds[idx].data, r)
        filled == [guilds EXCEPT ![idx].data = fill.data]
    IN  IF fill.err # "none"
        THEN [guilds |-> filled, pc |-> "failed", iter |-> [idx |-> idx, len |-> len],
              calls |-> <<>>, err |-> fill.err]
        ELSE [guilds |-> filled] @@ GuildLoop(filled, idx, len)

\* The call of the current guild returns r, one of rs: back-fill, then the
\* next guild.
GuildResponseWith(rs) ==
    /\ pc = "await_guild"
    /\ \E r \in rs :
        \E step \in {GuildStep(all_guild_application_commands, iter.idx, iter.len, r)} :
            /\ all_guild_application_commands' = step.guilds
            /\ pc' = step.pc
            /\ iter' = step.iter
            /\ sent' = sent \o step.calls
            /\ last' = [Call("guild_response") EXCEPT
                            !.guild = all_guild_application_commands[iter.idx].gid,
                            !.r = r,
                            !.err = step.err]
            /\ UNCHANGED <<all_global_application_commands, tasks>>

GuildResponse == GuildResponseWith(Responses)

\* A variant of Raised that undoes the run: every id is reset to 0.
RaisedRollingBack(glob, guilds, err) ==
    [glob |-> [i \in DOMAIN glob |-> [glob[i] EXCEPT !._id = 0]],
     guilds |-> [g \in DOMAIN guilds |->
                    [guilds[g] EXCEPT !.data = [i \in DOMAIN guilds[g].data |->
                                                   [guilds[g].data[i] EXCEPT !._id = 0]]]],
     pc |-> "failed", calls |-> <<>>, err |-> err]

\* An await of the coroutine raises err: no try statement encloses the
\* awaits, so the exception leaves the coroutine, which issues no further
\* call and leaves the registries as they are.
Raised(glob, guilds, err) ==
    [glob |-> glob, guilds |-> guilds, pc |-> "failed", calls |-> <<>>, err |-> err]

\* The pending bulk-upsert call raises: the exception leaves the coroutine.
TransportFailure ==
    /\ pc \in {"await_global", "await_guild"}
    /\ \E step \in {Raised(all_global_application_commands, all_guild_application_commands,
                            "HTTPException")} :
        /\ pc' = step.pc
        /\ all_global_application_commands' = step.glob
        /\ all_guild_application_commands' = step.guilds
        /\ sent' = sent \o step.calls
        /\ last' = [Call("transport_failure") EXCEPT
                        !.guild = IF pc = "await_global" THEN None
                                  ELSE all_guild_application_commands[iter.idx].gid,
                        !.err = step.err]
        /\ UNCHANGED <<iter, tasks>>

\* ------------------------------------------------------ interaction data
\* `default=MISSING` of SlashCommandOption.
MISSING == -2

\* Option wire types: sub-command, sub-command-group, integer, user.
SubCommandType == 1

SubCommandGroupType == 2

IntegerType == 4

UserType == 6

\* SlashCommandOption(name, type_, default): a declared option.
SlashCommandOption(name, type_, default) == [name |-> name, type |-> type_, default |-> default]

\* command.options of the commands of the model, by command name: "a", and
\* the group child "c", declare x (integer, no default) and y (user, default
\* 5); the sub-group child "d" declares y; "b" declares none.
options(command) ==
    CASE command.name \in {"a", "c"} ->
             <<SlashCommandOption("x", IntegerType, MISSING), SlashCommandOption("y", UserType, 5)>>
      [] command.name = "d" -> <<SlashCommandOption("y", UserType, 5)>>
      [] OTHER -> <<>>

\* An entry of interaction.data['options']: a leaf carries a value, a
\* sub-command or sub-command-group marker carries nested options.
Leaf(name, type_, value) == [type |-> type_, name |-> name, value |-> value, options |-> <<>>]

Marker(name, type_, nested) == [type |-> type_, name |-> name, value |-> 0, options |-> nested]

\* The values the model's interactions supply: x = 10, y = the user id 7.
LeafX == Leaf("x", IntegerType, 10)

LeafY == Leaf("y", UserType, 7)

\* Leaf lists: any subset of the declared options, in any order.
LeafLists == {<<>>, <<LeafX>>, <<LeafY>>, <<LeafX, LeafY>>, <<LeafY, LeafX>>}

\* Names a sub-command marker can carry: the child of the groups and a miss.
SubCommandMarkerNames == GroupCommandNames \cup {"z"}

SubGroupMarkerNames == SubGroupNames \cup {"z"}

NestedCommandMarkerNames == SubGroupCommandNames \cup {"z"}

\* interaction.data['options'] of a slash interaction: leaves, one
\* sub-command marker, or one sub-command-group marker holding at most one
\* sub-command marker.
OptionLists ==
    LeafLists
    \cup {<<Marker(c, SubCommandType, l)>> :
              c \in SubCommandMarkerNames, l \in {<<>>, <<LeafY, LeafX>>}}
    \cup {<<Marker(g, SubCommandGroupType, <<>>)>> : g \in SubGroupMarkerNames}
    \cup {<<Marker(g, SubCommandGroupType, <<Marker(c, SubCommandType, <<LeafY>>)>>)>> :
              g \in SubGroupMarkerNames, c \in NestedCommandMarkerNames}

\* The guild the interactions of the model come from.
InteractionGuilds == {1}

\* self.get_user(id): the cached user of that id.
get_user(id) == 100 + id

\* ------------------------------------------------------- slash resolution
\* res.commands.get(name) on a group: the direct child of that name, or None.
commands_get(group, name) ==
    IF name \in GroupCommandNames THEN SlashCommand(name) ELSE NoneVal

\* res.groups.get(name) on a group: the sub-group of that name, or None.
groups_get(group, name) ==
    IF name \in SubGroupNames THEN [kind |-> "subgroup", name |-> name, _id |-> 0,
                                    guild_id |-> None]
    ELSE NoneVal

\* g.commands.get(name) on a sub-group: its command of that name, or None.
subgroup_commands_get(g, name) ==
    IF name \in SubGroupCommandNames THEN SlashCommand(name) ELSE NoneVal

\* A variant of Resolved that drops the group.
ResolvedWithoutGroup(err, command, group) ==
    [err |-> err, command |-> command, group |-> NoneVal]

\* The result of a resolution: the exception raised, the command, the group.
Resolved(err, command, group) == [err |-> err, command |-> command, group |-> group]

\* `for o_2 in o["options"]: command = g.commands.get(o_2["name"])`: the
\* command left by the loop, the attribute read on None raising.
RECURSIVE NestedScan(_, _, _)
NestedScan(g, nested, command) ==
    IF nested = <<>> THEN [err |-> "none", command |-> command]
    ELSE IF g = NoneVal THEN [err |-> "AttributeError", command |-> command]
    ELSE NestedScan(g, Tail(nested), subgroup_commands_get(g, Head(nested).name))

\* `for o in options:` over the options of an interaction naming the group res.
RECURSIVE GroupScan(_, _, _)
GroupScan(res, opts, command) ==
    IF opts = <<>> THEN [err |-> "none", command |-> command]
    ELSE LET o == Head(opts)
         IN  IF o.type = 1 THEN GroupScan(res, Tail(opts), commands_get(res, o.name))
             ELSE IF o.type = 2
             THEN LET scan == NestedScan(groups_get(res, o.name), o.options, command)
                  IN  IF scan.err # "none" THEN scan
                      ELSE GroupScan(res, Tail(opts), scan.command)
             ELSE GroupScan(res, Tail(opts), command)

\* A variant of LookupByName that consults the registry of the interaction's
\* guild first and the global registry only when the guild has no such entry.
LookupByNameGuildFirst(glob, guilds, data) ==
    LET i == utils_get(all_commands(glob), data.name)
        j == IF HasGuild(guilds, data.guild_id)
             THEN utils_get(all_commands(GuildData(guilds, data.guild_id)), data.name)
             ELSE 0
    IN  IF j # 0 THEN [err |-> "none", res |-> GuildData(guilds, data.guild_id)[j]]
        ELSE [err |-> "none", res |-> IF i # 0 THEN glob[i] ELSE NoneVal]

\* The first lookup of a resolution: the global entry of the name, else the
\* entry of the name in the registry of the interaction's guild, the
\* subscript raising KeyError when the guild has no registry.
LookupByName(glob, guilds, data) ==
    LET i == utils_get(all_commands(glob), data.name)
    IN  IF i # 0 THEN [err |-> "none", res |-> glob[i]]
        ELSE IF ~HasGuild(guilds, data.guild_id) THEN [err |-> "KeyError", res |-> NoneVal]
        ELSE LET j == utils_get(all_commands(GuildData(guilds, data.guild_id)), data.name)
             IN  [err |-> "none",
                  res |-> IF j # 0 THEN GuildData(guilds, data.guild_id)[j] ELSE NoneVal]

\* A variant of resolve_slash_command that returns whatever entry the lookup
\* found when that entry is not a group.
resolve_slash_command_any(glob, guilds, data) ==
    LET found == LookupByName(glob, guilds, data)
        res == found.res
    IN  IF found.err # "none" THEN Resolved(found.err, NoneVal, NoneVal)
        ELSE IF res.kind = "group"
        THEN LET scan == GroupScan(res, data.options, NoneVal)
             IN  IF scan.err # "none" THEN Resolved(scan.err, NoneVal, NoneVal)
                 ELSE IF scan.command = NoneVal
                 THEN Resolved("CommandNotFound", NoneVal, NoneVal)
                 ELSE Resolved("none", scan.command, res)
        ELSE IF res = NoneVal THEN Resolved("CommandNotFound", NoneVal, NoneVal)
        ELSE Resolved("none", res, NoneVal)

\* __resolve_slash_command.  "CommandNotFound" is Exception("command not found").
resolve_slash_command(glob, guilds, data) ==
    LET found == LookupByName(glob, guilds, data)
        res == found.res
    IN  IF found.err # "none" THEN Resolved(found.err, NoneVal, NoneVal)
        ELSE IF res.kind = "slash" THEN Resolved("none", res, NoneVal)
        ELSE IF res.kind = "group"
        THEN LET scan == GroupScan(res, data.options, NoneVal)
             IN  IF scan.err # "none" THEN Resolved(scan.err, NoneVal, NoneVal)
                 ELSE IF scan.command = NoneVal
                 THEN Resolved("CommandNotFound", NoneVal, NoneVal)
                 ELSE Resolved("none", scan.command, res)
        ELSE Resolved("CommandNotFound", NoneVal, NoneVal)

\* ---------------------------------------------------------- option parsing
\* InteractionDataOption: the payload of a resolved option.
InteractionDataOption(name, type_, value) == [name |-> name, type |-> type_, value |-> value]

\* InteractionDataOption.from_slash_option: the declared default as value.
from_slash_option(option) == InteractionDataOption(option.name, option.type, option.default)

\* The conversion of a leaf's raw value by its wire type.
Convert(type_, value) == IF type_ = UserType THEN get_user(value) ELSE value

\* A variant of ParsedGet that returns the first entry parsed, whatever its name.
ParsedFirst(parsed_opts, name, default) ==
    IF parsed_opts = <<>> THEN default ELSE parsed_opts[1]

\* parsed_opts.get(name, default) on the name-keyed dict, kept as the
\* sequence of its assignments: the last one made for the name.
ParsedGet(parsed_opts, name, default) ==
    LET i == LastIndex({k \in DOMAIN parsed_opts : parsed_opts[k].name = name})
    IN  IF i = 0 THEN default ELSE parsed_opts[i]

\* final_opts: one entry per declared option, in declaration order.
FinalOpts(declared, parsed_opts) ==
    [i \in DOMAIN declared |->
        ParsedGet(parsed_opts, declared[i].name, from_slash_option(declared[i]))]

\* parse_opts(options), with the dict parsed_opts of the enclosing call.
RECURSIVE parse_opts(_, _, _)
parse_opts(declared, opts, parsed_opts) ==
    IF opts = <<>> THEN FinalOpts(declared, parsed_opts)
    ELSE LET option == Head(opts)
         IN  IF option.type = 1 \/ option.type = 2
             THEN parse_opts(declared, option.options, parsed_opts)
             ELSE parse_opts(declared, Tail(opts),
                             Append(parsed_opts,
                                    InteractionDataOption(option.name, option.type,
                                                          Convert(option.type, option.value))))

\* __parse_slash_options(command, interaction)
parse_slash_options(command, data) == parse_opts(options(command), data.options, <<>>)

\* ------------------------------------------------------------- dispatcher
\* Positional arguments of a handler call and of an emitted event.
ArgGroup(group) == [tag |-> "group", name |-> group.name, type |-> 0, value |-> group.guild_id]

ArgInteraction(data) == [tag |-> "interaction", name |-> data.name, type |-> data.ctype,
                         value |-> data.id]

ArgOption(o) == [tag |-> "option", name |-> o.name, type |-> o.type, value |-> o.value]

ArgUser(user) == [tag |-> "user", name |-> "", type |-> 0, value |-> user]

ArgError(e) == [tag |-> "error", name |-> e, type |-> 0, value |-> 0]

ArgOptions(opts) == [i \in DOMAIN opts |-> ArgOption(opts[i])]

\* A call of an attribute of a command (callback, autocomplete_callback).
Invocation(command, attribute, args) ==
    [command |-> command, attribute |-> attribute, args |-> args]

\* What a handler does when it is awaited: it returns, or raises an
\* exception that is an Exception, or one that is only a BaseException
\* (asyncio.CancelledError, SystemExit, KeyboardInterrupt).
HandlerOutcomes == {"returns", "Exception", "BaseException"}

\* A variant of SlashArgs that puts the interaction first.
SlashArgsInteractionFirst(command, group, data) ==
    <<ArgInteraction(data)>>
        \o (IF group = NoneVal THEN <<>> ELSE <<ArgGroup(group)>>)
        \o (IF options(command) # <<>> THEN ArgOptions(parse_slash_options(command, data))
            ELSE <<>>)

\* args of the slash branch of the listener.
SlashArgs(command, group, data) ==
    IF group = NoneVal
    THEN IF options(command) # <<>>
         THEN <<ArgInteraction(data)>> \o ArgOptions(parse_slash_options(command, data))
         ELSE <<ArgInteraction(data)>>
    ELSE IF options(command) # <<>>
         THEN <<ArgGroup(group), ArgInteraction(data)>>
                  \o ArgOptions(parse_slash_options(command, data))
         ELSE <<ArgGroup(group), ArgInteraction(data)>>

\* The outcome of a run of the listener: the exception that left it, the
\* handler calls it made, the events it emitted.
Dispatched(err, command, group, invoked, events) ==
    [err |-> err, command |-> command, group |-> group, invoked |-> invoked,
     events |-> events]

\* A variant of Awaited in which the try statement has a bare except clause.
AwaitedCatchingAll(data, h) ==
    IF h = "returns" THEN [err |-> "none", events |-> <<>>]
    ELSE [err |-> "none",
          events |-> <<[name |-> "interaction_command_error",
                        args |-> <<ArgInteraction(data), ArgError(h)>>]>>]

\* `try: await command.callback(*args)` / `except Exception as e:
\* self.dispatch('interaction_command_error', interaction, e)`.  A handler
\* that never completes leaves the listener suspended at the await.
Awaited(data, h) ==
    IF h = "returns" THEN [err |-> "none", events |-> <<>>]
    ELSE IF h = "hangs" THEN [err |-> "pending", events |-> <<>>]
    ELSE IF h = "Exception"
    THEN [err |-> "none",
          events |-> <<[name |-> "interaction_command_error",
                        args |-> <<ArgInteraction(data), ArgError(h)>>]>>]
    ELSE [err |-> h, events |-> <<>>]

\* The listener on an application_command interaction of command type 1.
listen_slash(glob, guilds, data, h) ==
    LET found == resolve_slash_command(glob, guilds, data)
    IN  IF found.err # "none" THEN Dispatched(found.err, NoneVal, NoneVal, <<>>, <<>>)
        ELSE LET args == SlashArgs(found.command, found.group, data)
                 done == Awaited(data, h)
             IN  Dispatched(done.err, found.command, found.group,
                            <<Invocation(found.command, "callback", args)>>, done.events)

\* discord.utils.get(seq, id=k): the first element with that id.
utils_get_id(data, k) == FirstIndex({i \in DOMAIN data : Id(data[i]) = k})

\* `utils.get(cmds, id=id) or utils.get(cmds, name=name)` over the User
\* Commands of a registry: the command, or None.
UserLookup(data, id, name) ==
    LET cmds == all_user_commands(data)
        i == utils_get_id(cmds, id)
        j == utils_get(cmds, name)
    IN  IF i # 0 THEN cmds[i] ELSE IF j # 0 THEN cmds[j] ELSE NoneVal

\* A variant of resolve_user_command that looks in the guild's registry first.
resolve_user_command_guild_first(glob, guilds, data) ==
    LET g == IF HasGuild(guilds, data.guild_id)
             THEN UserLookup(GuildData(guilds, data.guild_id), data.id, data.name)
             ELSE NoneVal
        c == IF g # NoneVal THEN g ELSE UserLookup(glob, data.id, data.name)
    IN  IF c = NoneVal THEN Resolved("CommandNotFound", NoneVal, NoneVal)
        ELSE Resolved("none", c, NoneVal)

\* __resolve_user_command
resolve_user_command(glob, guilds, data) ==
    LET c == UserLookup(glob, data.id, data.name)
        g == IF c = NoneVal /\ HasGuild(guilds, data.guild_id)
             THEN UserLookup(GuildData(guilds, data.guild_id), data.id, data.name)
             ELSE c
    IN  IF g = NoneVal THEN Resolved("CommandNotFound", NoneVal, NoneVal)
        ELSE Resolved("none", g, NoneVal)

\* The listener on an application_command interaction of command type 2:
\* no try statement, so what the handler raises leaves the listener.
listen_user(glob, guilds, data, h) ==
    LET found == resolve_user_command(glob, guilds, data)
    IN  IF found.err # "none" THEN Dispatched(found.err, NoneVal, NoneVal, <<>>, <<>>)
        ELSE Dispatched(IF h = "returns" THEN "none" ELSE h, found.command, NoneVal,
                        <<Invocation(found.command, "callback",
                                     <<ArgInteraction(data), ArgUser(get_user(data.target_id))>>)>>,
                        <<>>)

\* The listener on an application_command interaction of command type 3:
\* self.__resolve_message_command is read first, and the class defines no
\* such method, so the read raises before anything is fetched or called.
listen_message(glob, guilds, data) ==
    Dispatched("AttributeError", NoneVal, NoneVal, <<>>, <<>>)

\* command.autocomplete_callback of a resolved command: the attribute is
\* absent (slash_command.py never sets it), None, or a handler.
AutocompleteAttrs == {"absent", "None", "handler"}

\* The listener on an autocomplete interaction.
listen_autocomplete(glob, guilds, data, attr) ==
    LET found == resolve_slash_command(glob, guilds, data)
    IN  IF found.err # "none" THEN Dispatched(found.err, NoneVal, NoneVal, <<>>, <<>>)
        ELSE IF attr = "absent"
        THEN Dispatched("AttributeError", found.command, found.group, <<>>, <<>>)
        ELSE IF attr = "handler"
        THEN Dispatched("none", found.command, found.group,
                        <<Invocation(found.command, "autocomplete_callback",
                                     <<ArgInteraction(data)>>)>>, <<>>)
        ELSE Dispatched("none", found.command, found.group, <<>>, <<>>)

\* interaction.data of the interactions of the model.
InteractionData(type, ctype, id, name, guild_id, opts) ==
    [type |-> type, ctype |-> ctype, id |-> id, name |-> name, guild_id |-> guild_id,
     options |-> opts, target_id |-> 7]

\* A variant of schedule_event that runs a listener only once the tasks
\* scheduled before it have finished.
schedule_event_in_turn(pending) == pending = <<>>

\* self._schedule_event(event, ev, *args): the listener is wrapped in a task
\* of its own, which the loop starts whatever tasks are still pending.
schedule_event(pending) == TRUE

\* The task of a listener whose handler has not completed.
ListenerTask ==
    [name |-> "_listen_application_commands", pc |-> "await_callback", iter |-> NoIter,
     sent |-> <<>>]

\* A variant of Interaction in which the listener stores the interaction's
\* command id on the global commands of the interaction's name.
InteractionBackfilling(op, data, h, attr, step) ==
    /\ dispatch("interaction") # <<>>
    /\ schedule_event(tasks)
    /\ step.err = "pending" => Len(tasks) < MaxTasks
    /\ tasks' = IF step.err = "pending" THEN Append(tasks, ListenerTask) ELSE tasks
    /\ last' = [Call(op) EXCEPT
                    !.data = data, !.err = step.err, !.command = step.command,
                    !.ret = step.group, !.invoked = step.invoked, !.events = step.events,
                    !.handler = IF step.invoked = <<>> THEN "" ELSE h,
                    !.attr = IF step.command = NoneVal THEN "" ELSE attr,
                    !.runs = Len(dispatch("interaction"))]
    /\ all_global_application_commands' =
           [i \in DOMAIN all_global_application_commands |->
               IF all_global_application_commands[i].name = data.name
               THEN [all_global_application_commands[i] EXCEPT !._id = data.id + 1]
               ELSE all_global_application_commands[i]]
    /\ UNCHANGED <<all_guild_application_commands, pc, iter, sent>>

\* An on_interaction event: the listener runs in a task of its own, `step`
\* being its outcome; the task stays on the loop while its handler is pending.
Interaction(op, data, h, attr, step) ==
    /\ dispatch("interaction") # <<>>
    /\ schedule_event(tasks)
    /\ step.err = "pending" => Len(tasks) < MaxTasks
    /\ tasks' = IF step.err = "pending" THEN Append(tasks, ListenerTask) ELSE tasks
    /\ last' = [Call(op) EXCEPT
                    !.data = data, !.err = step.err, !.command = step.command,
                    !.ret = step.group, !.invoked = step.invoked, !.events = step.events,
                    !.handler = IF step.invoked = <<>> THEN "" ELSE h,
                    !.attr = IF step.command = NoneVal THEN "" ELSE attr,
                    !.runs = Len(dispatch("interaction"))]
    /\ UNCHANGED <<all_global_application_commands, all_guild_application_commands,
                   pc, iter, sent>>

\* A slash interaction whose options are drawn from optlists and whose
\* handler ends in one of outcomes.
SlashInteractionWith(optlists, outcomes) ==
    \E name \in Names, g \in InteractionGuilds, opts \in optlists, h \in outcomes :
        \E data \in {InteractionData("application_command", 1, 1, name, g, opts)} :
            Interaction("slash_interaction", data, h, "",
                        listen_slash(all_global_application_commands,
                                     all_guild_application_commands, data, h))

SlashInteraction == SlashInteractionWith(OptionLists, HandlerOutcomes)

UserInteraction ==
    \E name \in Names, id \in PlatformIds, g \in InteractionGuilds, h \in HandlerOutcomes :
        \E data \in {InteractionData("application_command", 2, id, name, g, <<>>)} :
            Interaction("user_interaction", data, h, "",
                        listen_user(all_global_application_commands,
                                    all_guild_application_commands, data, h))

MessageInteraction ==
    \E name \in Names, g \in InteractionGuilds :
        \E data \in {InteractionData("application_command", 3, 1, name, g, <<>>)} :
            Interaction("message_interaction", data, "", "",
                        listen_message(all_global_application_commands,
                                       all_guild_application_commands, data))

\* An autocomplete interaction whose options are drawn from optlists.
AutocompleteInteractionWith(optlists) ==
    \E name \in Names, g \in InteractionGuilds, attr \in AutocompleteAttrs,
       opts \in optlists :
        \E data \in {InteractionData("autocomplete", 1, 1, name, g, opts)} :
            Interaction("autocomplete_interaction", data, "handler", attr,
                        listen_autocomplete(all_global_application_commands,
                                            all_guild_application_commands, data, attr))

AutocompleteInteraction ==
    AutocompleteInteractionWith({l \in OptionLists : l \in LeafLists => l = <<LeafX>>})

\* registry.add_command(command) on the global registry or on a guild's
\* registry: the way a User Command, with the id a deployment gave it,
\* comes to be held by a registry (add_user_command raises before it appends).
AddCommand ==
    \E n \in Names, k \in PlatformIds \cup {0}, g \in GuildIds \cup {None} :
        \E command \in {[UserCommand(n) EXCEPT !._id = k]} :
            Register("add_command",
                     IF g = None
                     THEN Outcome("none", add_command(all_global_application_commands, command),
                                  all_guild_application_commands)
                     ELSE Outcome("none", all_global_application_commands,
                                  GuildAdd(all_guild_application_commands, g, command)),
                     command, g, FALSE)

\* ------------------------------------------------------- concurrent tasks
\* A run of the deployment coroutine other than the one pc follows: its
\* position, its dict iterator and the calls it has issued.
DeployTask(at, it, calls) ==
    [name |-> "_deploy_application_commands", pc |-> at, iter |-> it, sent |-> calls]

InProgress == {"await_global", "await_guild"}

\* The tasks after task k moved to position at, issuing calls: a finished
\* task leaves the loop.
Moved(pending, k, at, it, calls) ==
    IF at \in InProgress
    THEN [pending EXCEPT ![k] = DeployTask(at, it, pending[k].sent \o calls)]
    ELSE SubSeq(pending, 1, k - 1) \o SubSeq(pending, k + 1, Len(pending))

\* on_connect while a run is suspended at an await: dispatch schedules the
\* listener again, and the new run reaches its own first await.
ConnectWhileDeploying ==
    /\ pc \in InProgress
    /\ dispatch("connect") # <<>>
    /\ schedule_event(tasks)
    /\ Len(tasks) < MaxTasks
    /\ tasks' = Append(tasks,
                       DeployTask("await_global", NoIter,
                                  <<Upsert(None, GlobalBatch(all_global_application_commands))>>))
    /\ last' = [Call("connect") EXCEPT !.after = pc, !.runs = Len(dispatch("connect"))]
    /\ UNCHANGED <<all_global_application_commands, all_guild_application_commands,
                   pc, iter, sent>>

\* Responses of at most one entry, a slash command given the id 1.
TaskResponses ==
    {r \in Responses : Len(r) <= 1 /\ \A i \in DOMAIN r : r[i].type = 1 /\ r[i].id = 1}

\* The global call of run k returns r.
TaskGlobalResponse ==
    \E k \in DOMAIN tasks, r \in TaskResponses :
        /\ tasks[k].name = "_deploy_application_commands"
        /\ tasks[k].pc = "await_global"
        /\ \E step \in {GuildLoop(all_guild_application_commands, 0,
                                  Len(all_guild_application_commands))} :
               /\ all_global_application_commands' =
                      BackfillGlobal(all_global_application_commands, r)
               /\ tasks' = Moved(tasks, k, step.pc, step.iter, step.calls)
               /\ last' = [Call("task_global_response") EXCEPT !.r = r, !.err = step.err]
               /\ UNCHANGED <<all_guild_application_commands, pc, iter, sent>>

\* The call run k made for its current guild returns r.
TaskGuildResponse ==
    \E k \in DOMAIN tasks, r \in TaskResponses :
        /\ tasks[k].name = "_deploy_application_commands"
        /\ tasks[k].pc = "await_guild"
        /\ \E step \in {GuildStep(all_guild_application_commands, tasks[k].iter.idx,
                                  tasks[k].iter.len, r)} :
               /\ all_guild_application_commands' = step.guilds
               /\ tasks' = Moved(tasks, k, step.pc, step.iter, step.calls)
               /\ last' = [Call("task_guild_response") EXCEPT
                               !.guild = all_guild_application_commands[tasks[k].iter.idx].gid,
                               !.r = r, !.err = step.err]
               /\ UNCHANGED <<all_global_application_commands, pc, iter, sent>>

\* ------------------------------------------------------------ construction
\* Python values handed to the constructors: a str of length n, an int n,
\* None, a list of n elements (ok: every element is a SlashCommandOption).
PyStr(n) == [t |-> "str", n |-> n, ok |-> TRUE]

PyInt(n) == [t |-> "int", n |-> n, ok |-> TRUE]

PyNone == [t |-> "None", n |-> 0, ok |-> TRUE]

PyList(n, ok) == [t |-> "list", n |-> n, ok |-> ok]

\* bool(v)
Truthy(v) == v.t # "None" /\ v.n # 0

\* `a or b`
Or(a, b) == IF Truthy(a) THEN a ELSE b

\* The outcome of a constructor: the exception raised, the object produced.
Constructed(err, obj) == [err |-> err, obj |-> obj]

NoObject == [kind |-> "None", name |-> PyNone, description |-> PyNone, _id |-> 0]

\* A variant of CommandInit whose description bounds are inclusive.
CommandInitInclusive(kind, iscoroutine, name, func_name, description, opts) ==
    LET name0 == Or(name, func_name)
        description0 == Or(description, name0)
    IN  IF ~iscoroutine THEN Constructed("TypeError", NoObject)
        ELSE IF name0.t # "str" THEN Constructed("TypeError", NoObject)
        ELSE IF description0.t # "str" THEN Constructed("TypeError", NoObject)
        ELSE IF ~(1 <= description0.n /\ description0.n <= 100)
        THEN Constructed("ValueError", NoObject)
        ELSE IF kind = "slash" /\ Truthy(opts) /\ (opts.t # "list" \/ ~opts.ok)
        THEN Constructed("TypeError", NoObject)
        ELSE Constructed("none", [kind |-> kind, name |-> name0,
                                  description |-> description0, _id |-> 0])

\* SlashCommand.__init__, UserCommand.__init__, MessageCommand.__init__ with
\* func (a coroutine function or not, its __name__) and the keyword
\* arguments name, description and, read by SlashCommand only, options.
\* lower() and cleandoc() keep a str a str; the length tested is the one
\* before cleandoc.
CommandInit(kind, iscoroutine, name, func_name, description, opts) ==
    LET name0 == Or(name, func_name)
        description0 == Or(description, name0)
    IN  IF ~iscoroutine THEN Constructed("TypeError", NoObject)
        ELSE IF name0.t # "str" THEN Constructed("TypeError", NoObject)
        ELSE IF description0.t # "str" THEN Constructed("TypeError", NoObject)
        ELSE IF ~(1 < description0.n /\ description0.n < 100)
        THEN Constructed("ValueError", NoObject)
        ELSE IF kind = "slash" /\ Truthy(opts) /\ (opts.t # "list" \/ ~opts.ok)
        THEN Constructed("TypeError", NoObject)
        ELSE Constructed("none", [kind |-> kind, name |-> name0,
                                  description |-> description0, _id |-> 0])

\* Lengths of the strings tried: empty, and both sides of each bound.
StrLens == {0, 1, 2, 99, 100}

\* Values tried for a name or a description keyword: absent (None), falsy
\* and truthy non-strings, strings.
TextArgs == {PyNone, PyInt(0), PyInt(5)} \cup {PyStr(n) : n \in StrLens}

\* func.__name__: a non-empty str.
FuncNames == {PyStr(n) : n \in StrLens \ {0}}

\* Values tried for the options keyword.
OptionsArgs == {PyNone, PyInt(5), PyList(0, TRUE), PyList(1, TRUE), PyList(2, FALSE)}

CommandKinds == {"slash", "user", "message"}

CommandInitArgs ==
    [kind : CommandKinds, iscoroutine : BOOLEAN, name : TextArgs, func_name : FuncNames,
     description : TextArgs, opts : OptionsArgs]

\* A call of a command constructor with the arguments drawn.
ConstructCommand ==
    /\ last.op = "command_args"
    /\ \E done \in {CommandInit(last.args.kind, last.args.iscoroutine, last.args.name,
                                last.args.func_name, last.args.description,
                                last.args.opts)} :
           last' = [last EXCEPT !.op = "command_init", !.err = done.err, !.obj = done.obj]
    /\ UNCHANGED <<all_global_application_commands, all_guild_application_commands,
                   pc, iter, sent, tasks>>

\* An enum member of SlashCommandOptionTypes with value n.
PyEnum(n) == [t |-> "enum", n |-> n, ok |-> TRUE]

PyBool(b) == [t |-> "bool", n |-> IF b THEN 1 ELSE 0, ok |-> TRUE]

\* `type_ in range(3, 11)`
InWireRange(type_) == type_.t \in {"int", "bool"} /\ 3 <= type_.n /\ type_.n < 11

NoOption == [name |-> PyNone, description |-> PyNone, type |-> 0, required |-> PyNone]

\* SlashCommandOption.__init__ of discord/ext/commands/slash_options.py: the
\* four isinstance and range tests, then the assignments; the length of the
\* description is not read.
OptionInit(name, description, type_, required) ==
    IF name.t # "str" THEN Constructed("TypeError", NoOption)
    ELSE IF description.t # "str" THEN Constructed("TypeError", NoOption)
    ELSE IF ~(InWireRange(type_) \/ type_.t = "enum") THEN Constructed("TypeError", NoOption)
    ELSE IF required.t # "bool" THEN Constructed("TypeError", NoOption)
    ELSE Constructed("none", [name |-> name, description |-> description,
                              type |-> type_.n, required |-> required])

\* SlashCommandOption.__init__ of discord/slash_options.py: the type test is
\* `not isinstance(type, int) or (3 > type >= 10)`, whose second operand is
\* false of every int.
CoreOptionInit(name, description, type_, required) ==
    IF name.t # "str" THEN Constructed("TypeError", NoOption)
    ELSE IF description.t # "str" THEN Constructed("TypeError", NoOption)
    ELSE IF type_.t \notin {"int", "bool"} \/ (3 > type_.n /\ type_.n >= 10)
    THEN Constructed("TypeError", NoOption)
    ELSE IF required.t # "bool" THEN Constructed("TypeError", NoOption)
    ELSE Constructed("none", [name |-> name, description |-> description,
                              type |-> type_.n, required |-> required])

\* Values tried for the type: ints on both sides of each end of 3..10, an
\* enum member, a str.
TypeArgs == {PyInt(n) : n \in {2, 3, 10, 11}} \cup {PyEnum(6), PyStr(1)}

OptionInitArgs ==
    [module : {"discord.ext.commands.slash_options", "discord.slash_options"},
     name : {PyStr(1), PyInt(5)}, description : {PyStr(n) : n \in StrLens} \cup {PyNone},
     type_ : TypeArgs, required : {PyBool(TRUE), PyBool(FALSE), PyNone}]

\* A call of one of the two option constructors with the arguments drawn.
ConstructOption ==
    /\ last.op = "option_args"
    /\ \E done \in {IF last.args.module = "discord.slash_options"
                    THEN CoreOptionInit(last.args.name, last.args.description,
                                        last.args.type_, last.args.required)
                    ELSE OptionInit(last.args.name, last.args.description,
                                    last.args.type_, last.args.required)} :
           last' = [last EXCEPT !.op = "option_init", !.err = done.err, !.obj = done.obj]
    /\ UNCHANGED <<all_global_application_commands, all_guild_application_commands,
                   pc, iter, sent, tasks>>

\* allowed_users / allowed_roles: a dict of id to bool, as the sequence of
\* its items in insertion order.
PermissionMaps ==
    {<<>>}
    \cup {<<[id |-> i, allow |-> b]>> : i \in PlatformIds, b \in BOOLEAN}
    \cup {<<[id |-> p[1], allow |-> b], [id |-> p[2], allow |-> c]>> :
              p \in {q \in PlatformIds \X PlatformIds : q[1] # q[2]},
              b \in BOOLEAN, c \in BOOLEAN}

\* One entry of permissions_json: int(id_), the principal type, int(allow_).
PermissionEntry(item, type) ==
    [id |-> item.id, type |-> type, permission |-> PyInt(IF item.allow THEN 1 ELSE 0)]

\* The value of a serializer: None, or a list with its items.
Serialized(t, items) == [t |-> t, items |-> items]

\* permissions_json of SlashCommand and MessageCommand; UserCommand defines
\* no such attribute (nor allowed_users, allowed_roles), so reading it raises.
permissions_json(kind, allowed_users, allowed_roles) ==
    IF kind = "user" THEN Constructed("AttributeError", Serialized("None", <<>>))
    ELSE LET json_ == [i \in DOMAIN allowed_users |-> PermissionEntry(allowed_users[i], 2)]
                      \o [i \in DOMAIN allowed_roles |-> PermissionEntry(allowed_roles[i], 1)]
         IN  IF Len(json_) # 0 THEN Constructed("none", Serialized("list", json_))
             ELSE Constructed("none", Serialized("None", <<>>))

PermissionArgs ==
    [kind : CommandKinds, allowed_users : PermissionMaps, allowed_roles : PermissionMaps]

\* A read of permissions_json on a command of the variant drawn.
SerializePermissions ==
    /\ last.op = "permissions_args"
    /\ \E done \in {permissions_json(last.args.kind, last.args.allowed_users,
                                     last.args.allowed_roles)} :
           last' = [last EXCEPT !.op = "permissions_json", !.err = done.err,
                                !.obj = done.obj]
    /\ UNCHANGED <<all_global_application_commands, all_guild_application_commands,
                   pc, iter, sent, tasks>>

\* ------------------------------------------------------------- group types
\* Attribute names of a class body and the declarations a body can hold: the
\* SlashCommand attributes of the type's __dict__, in order, each under its
\* attribute name `elem` and with its command name.
AttrNames == {"x", "y"}

ClassBodies ==
    {<<>>}
        \cup {<<[elem |-> e, name |-> n]>> : e \in AttrNames, n \in Names}
        \cup {<<[elem |-> p[1], name |-> n], [elem |-> p[2], name |-> m]>> :
                  p \in {q \in AttrNames \X AttrNames : q[1] # q[2]},
                  n \in Names, m \in Names}

\* The command object the body of type cls binds to the attribute d.elem.
Declared(cls, d) == [cls |-> cls, elem |-> d.elem, name |-> d.name]

\* `d[key] = value` on a dict, kept as the sequence of its items.
DictSet(d, key, value) ==
    IF \E i \in DOMAIN d : d[i].key = key
    THEN [i \in DOMAIN d |-> IF d[i].key = key THEN [key |-> key, value |-> value] ELSE d[i]]
    ELSE Append(d, [key |-> key, value |-> value])

\* `for elem, value in base.__dict__.items()` over the commands of one type:
\* a command whose _is_sub_command is already set is passed over, any other
\* is flagged and stored under its attribute name.
RECURSIVE ScanDict(_, _, _, _)
ScanDict(cls, decls, commands, flagged) ==
    IF decls = <<>> THEN [commands |-> commands, flagged |-> flagged]
    ELSE LET value == Declared(cls, Head(decls))
         IN  IF value \in flagged THEN ScanDict(cls, Tail(decls), commands, flagged)
             ELSE ScanDict(cls, Tail(decls), DictSet(commands, Head(decls).elem, value),
                           flagged \cup {value})

\* `for base in reversed(new_cls.__mro__)`: the types base first.
RECURSIVE ScanMro(_, _, _)
ScanMro(bases, commands, flagged) ==
    IF bases = <<>> THEN [commands |-> commands, flagged |-> flagged]
    ELSE LET scan == ScanDict(Head(bases).cls, Head(bases).decls, commands, flagged)
         IN  ScanMro(Tail(bases), scan.commands, scan.flagged)

\* `{i.name: i for i in list(commands.values())}`.
RECURSIVE ByName(_, _)
ByName(items, acc) ==
    IF items = <<>> THEN acc
    ELSE ByName(Tail(items), DictSet(acc, Head(items).value.name, Head(items).value))

\* GroupMeta.__new__ for a type of the given ancestry (base types first),
\* flagged being the commands whose _is_sub_command is set: the type's
\* _slash_commands and the commands flagged afterwards.
GroupMetaNew(bases, flagged) ==
    LET scan == ScanMro(bases, <<>>, flagged)
    IN  [children |-> ByName(scan.commands, <<>>), flagged |-> scan.flagged]

GroupTypeArgs == [base : ClassBodies, derived : ClassBodies]

\* `class Base(SlashCommandGroup)` then `class Derived(Base)`: the metaclass
\* builds the child-set of each type as the class statement is executed.
CreateGroupTypes ==
    /\ last.op = "group_args"
    /\ \E base \in {GroupMetaNew(<<[cls |-> "Base", decls |-> last.args.base]>>, {})} :
         \E derived \in {GroupMetaNew(<<[cls |-> "Base", decls |-> last.args.base],
                                        [cls |-> "Derived", decls |-> last.args.derived]>>,
                                      base.flagged)} :
           last' = [last EXCEPT !.op = "group_types",
                                !.obj = [base |-> base.children,
                                         derived |-> derived.children]]
    /\ UNCHANGED <<all_global_application_commands, all_guild_application_commands,
                   pc, iter, sent, tasks>>

\* ------------------------------------------------------ uninterrupted runs
\* The guild loop run to its end from the loop state st, the call of the
\* guild at position k returning rs[k]: the guild registries, the position the
\* coroutine is left in, its error and the calls issued.
RECURSIVE DeployFrom(_, _, _, _)
DeployFrom(guilds, st, rs, calls) ==
    IF st.pc # "await_guild"
    THEN [guilds |-> guilds, pc |-> st.pc, err |-> st.err, calls |-> calls \o st.calls]
    ELSE LET nxt == GuildStep(guilds, st.iter.idx, st.iter.len, rs[st.iter.idx])
         IN  DeployFrom(nxt.guilds, [pc |-> nxt.pc, iter |-> nxt.iter, calls |-> nxt.calls,
                                     err |-> nxt.err],
                        rs, calls \o st.calls)

\* A variant of DeployRun whose global back-fill adds the platform's id to
\* the id an entry already has.
DeployRunAdding(glob, guilds, r0, rs) ==
    LET fin == DeployFrom(guilds, GuildLoop(guilds, 0, Len(guilds)), rs,
                          <<Upsert(None, GlobalBatch(glob))>>)
    IN  [glob |-> [i \in DOMAIN glob |->
                      IF \E k \in DOMAIN r0 : r0[k].name = glob[i].name
                      THEN [glob[i] EXCEPT !._id = (@ + r0[1].id) % 4]
                      ELSE glob[i]],
         guilds |-> fin.guilds, pc |-> fin.pc, err |-> fin.err, calls |-> fin.calls]

\* _deploy_application_commands run from its start to its end with nothing
\* interleaved: the global call returns r0, the call of the guild at position
\* k returns rs[k].
DeployRun(glob, guilds, r0, rs) ==
    LET fin == DeployFrom(guilds, GuildLoop(guilds, 0, Len(guilds)), rs,
                          <<Upsert(None, GlobalBatch(glob))>>)
    IN  [glob |-> BackfillGlobal(glob, r0), guilds |-> fin.guilds, pc |-> fin.pc,
         err |-> fin.err, calls |-> fin.calls]

\* The responses drawn for the uninterrupted runs: at most one entry.
RunResponses == {r \in Responses : Len(r) <= 1}

\* A connect event whose run is over before any other event is handled.
Deployment(op, r0, rs) ==
    /\ dispatch("connect") # <<>>
    /\ \E run \in {DeployRun(all_global_application_commands,
                             all_guild_application_commands, r0, rs)} :
        /\ all_global_application_commands' = run.glob
        /\ all_guild_application_commands' = run.guilds
        /\ pc' = run.pc
        /\ sent' = run.calls
        /\ last' = [Call(op) EXCEPT !.err = run.err, !.after = pc,
                                    !.args = [r0 |-> r0, rs |-> rs]]
    /\ UNCHANGED <<iter, tasks>>

\* The first connect event.
FirstRun ==
    /\ pc = "idle"
    /\ \E r0 \in RunResponses :
         \E rs \in [1..Len(all_guild_application_commands) -> RunResponses] :
           Deployment("deploy", r0, rs)

\* The next connect event, nothing having happened since the first run, the
\* platform returning what it returned then.
SecondRun ==
    /\ last.op = "deploy"
    /\ Deployment("redeploy", last.args.r0, last.args.rs)

\* ---------------------------------------------------------- specification
Init ==
    /\ all_global_application_commands = <<>>
    /\ all_guild_application_commands = <<>>
    /\ pc = "idle"
    /\ iter = NoIter
    /\ sent = <<>>
    /\ tasks = <<>>
    /\ last = Call("init")

\* Registration and deployment, interleaved at the coroutine's awaits.
Next ==
    \/ AddSlashCommand(FALSE)
    \/ AddMessageCommand(FALSE)
    \/ AddUserCommand(FALSE)
    \/ AddSlashGroup(FALSE)
    \/ Connect
    \/ GlobalResponse
    \/ GuildResponse
    \/ TransportFailure

Spec == Init /\ [][Next]_vars

\* Registration and lookup before any connection, every call's arguments recorded.
NextReg ==
    \/ AddSlashCommand(TRUE)
    \/ AddMessageCommand(TRUE)
    \/ AddUserCommand(TRUE)
    \/ AddSlashGroup(TRUE)
    \/ Get
    \/ GetGlobalSlashCommand

SpecReg == Init /\ [][NextReg]_vars

\* Registration and the dispatch of slash and autocomplete interactions.
NextSlash ==
    \/ AddSlashCommand(FALSE)
    \/ AddMessageCommand(FALSE)
    \/ AddSlashGroup(FALSE)
    \/ SlashInteraction
    \/ AutocompleteInteraction

SpecSlash == Init /\ [][NextSlash]_vars

\* Registration and the dispatch of user and message interactions.
NextContext ==
    \/ AddCommand
    \/ AddMessageCommand(FALSE)
    \/ UserInteraction
    \/ MessageInteraction

SpecContext == Init /\ [][NextContext]_vars

\* Registration of every kind of command and the dispatch of every kind of
\* interaction.
NextFrame ==
    \/ AddSlashCommand(FALSE)
    \/ AddMessageCommand(FALSE)
    \/ AddCommand
    \/ SlashInteractionWith({<<>>, <<LeafX>>}, HandlerOutcomes)
    \/ UserInteraction
    \/ MessageInteraction
    \/ AutocompleteInteractionWith({<<LeafX>>})

SpecFrame == Init /\ [][NextFrame]_vars

\* Slash commands, overlapping deployment runs and interactions whose
\* handler may never complete.
NextTasks ==
    \/ AddSlashCommand(FALSE)
    \/ Connect
    \/ GlobalResponseWith(TaskResponses)
    \/ GuildResponseWith(TaskResponses)
    \/ ConnectWhileDeploying
    \/ TaskGlobalResponse
    \/ TaskGuildResponse
    \/ SlashInteractionWith({<<>>}, {"returns", "hangs"})

SpecTasks == Init /\ [][NextTasks]_vars

\* Entries of all four kinds added to the registries, nothing else.
NextViews ==
    \/ AddSlashCommand(FALSE)
    \/ AddMessageCommand(FALSE)
    \/ AddCommand
    \/ AddSlashGroup(FALSE)

SpecViews == Init /\ [][NextViews]_vars

\* Registration, then a deployment run and its repetition.
NextTwice ==
    \/ AddSlashCommand(FALSE)
    \/ AddMessageCommand(FALSE)
    \/ AddSlashGroup(FALSE)
    \/ FirstRun
    \/ SecondRun

SpecTwice == Init /\ [][NextTwice]_vars

\* The constructors and serializers, each applied to arguments drawn at the start.
InitPure ==
    /\ all_global_application_commands = <<>>
    /\ all_guild_application_commands = <<>>
    /\ pc = "idle"
    /\ iter = NoIter
    /\ sent = <<>>
    /\ tasks = <<>>
    /\ \/ \E a \in CommandInitArgs : last = [Call("command_args") EXCEPT !.args = a]
       \/ \E a \in OptionInitArgs : last = [Call("option_args") EXCEPT !.args = a]
       \/ \E a \in PermissionArgs : last = [Call("permissions_args") EXCEPT !.args = a]
       \/ \E a \in GroupTypeArgs : last = [Call("group_args") EXCEPT !.args = a]

NextPure ==
    \/ ConstructCommand
    \/ ConstructOption
    \/ SerializePermissions
    \/ CreateGroupTypes

SpecPure == InitPure /\ [][NextPure]_vars

\* ------------------------------------------------------------------ claims
Glob == all_global_application_commands

Guilds == all_guild_application_commands

RegistrationOps == {"add_slash_command", "add_user_command", "add_message_command"}

\* Position i of `data` holds a Slash Command named n.
SlashNamed(data, n) == \E i \in DOMAIN data : data[i].kind = "slash" /\ data[i].name = n

\* Some entry of `data` is named n.
Named(data, n) == \E i \in DOMAIN data : data[i].name = n

\* Guild g's registry after the step is its registry before the step (empty
\* when it did not exist) with `command` appended; every other guild's
\* registry, and the order of the keys already present, are as before.
AppendedToGuild(g, command) ==
    /\ GuildKeys(Guilds') = IF HasGuild(Guilds, g) THEN GuildKeys(Guilds)
                            ELSE Append(GuildKeys(Guilds), g)
    /\ GuildData(Guilds', g) = Append(IF HasGuild(Guilds, g) THEN GuildData(Guilds, g) ELSE <<>>,
                                      command)
    /\ \A i \in DOMAIN Guilds : Guilds[i].gid # g => Guilds'[i] = Guilds[i]

\* C1: a second add_slash_command of a global SlashCommand named n, after one
\* was registered, raises CommandRegistrationError; add_slash_command of a
\* SlashCommand named n into a guild, with no global entry named n, succeeds
\* and that guild's registry then contains the command (so two guilds can
\* each hold a command named n).
C1_DuplicateGlobalRejectedGuildsAccepted ==
    [][last'.op = "add_slash_command" /\ last'.command.kind = "slash" =>
          /\ (last'.guild = None /\ SlashNamed(Glob, last'.command.name))
                 => last'.err = "CommandRegistrationError"
          /\ (last'.guild # None /\ ~Named(Glob, last'.command.name))
                 => /\ last'.err = "none"
                    /\ HasGuild(Guilds', last'.guild)
                    /\ SlashNamed(GuildData(Guilds', last'.guild), last'.command.name)]_vars

\* C1 witness: the duplicate global registration of "a" was rejected.
C1_Witness ==
    /\ last.op = "add_slash_command"
    /\ last.guild = None
    /\ last.command = SlashCommand("a")
    /\ last.err = "CommandRegistrationError"
    /\ SlashNamed(Glob, "a")

\* C1, the guild half reached: two guilds each hold a Slash Command named "a".
C1_TwoGuildsReached ==
    /\ last.op = "add_slash_command"
    /\ last.err = "none"
    /\ \A g \in GuildIds : HasGuild(Guilds, g) /\ SlashNamed(GuildData(Guilds, g), "a")

\* No registry holds two entries with the same name.
NoDuplicateNames(data) ==
    \A i, j \in DOMAIN data : data[i].name = data[j].name => i = j

\* C2: no registry (the global one or a guild's) ever holds two entries
\* with the same name.
C2_NoDuplicateNames ==
    /\ NoDuplicateNames(Glob)
    /\ \A i \in DOMAIN Guilds : NoDuplicateNames(Guilds[i].data)

\* C3: a registration call that fails with an error leaves the global
\* registry, the guild mapping (key set included) and every guild registry
\* exactly as they were.
C3_FailedRegistrationChangesNothing ==
    [][last'.op \in RegistrationOps /\ last'.err # "none"
          => UNCHANGED <<all_global_application_commands, all_guild_application_commands>>]_vars

\* C3 witness: a guild-scoped add_slash_command was rejected while both the
\* global registry and a guild registry hold entries.
C3_Witness ==
    /\ last.op \in RegistrationOps
    /\ last.err = "CommandRegistrationError"
    /\ last.guild # None
    /\ Len(Glob) > 0
    /\ Len(Guilds) > 0

\* C4 as claimed: add_slash_command with a SlashCommand and a guild given
\* always succeeds, creating the guild's registry if needed and appending to
\* it with the global registry unchanged - also when the global registry
\* holds an entry of that name.
C4_GuildRegistrationAlwaysSucceeds ==
    [][last'.op = "add_slash_command" /\ last'.command.kind = "slash" /\ last'.guild # None
          => /\ last'.err = "none"
             /\ AppendedToGuild(last'.guild, last'.command)
             /\ UNCHANGED all_global_application_commands]_vars

\* C4 amended: add_slash_command with a SlashCommand and a guild given checks
\* the name against the global registry first, as it does when guild is
\* omitted: with a global entry of that name it raises
\* CommandRegistrationError and changes nothing; otherwise it creates the
\* guild's registry if needed and appends the command to it, the global
\* registry unchanged.
C4_GuildRegistrationChecksGlobalNames ==
    [][last'.op = "add_slash_command" /\ last'.command.kind = "slash" /\ last'.guild # None
          => IF Named(Glob, last'.command.name)
             THEN /\ last'.err = "CommandRegistrationError"
                  /\ UNCHANGED <<all_global_application_commands,
                                 all_guild_application_commands>>
             ELSE /\ last'.err = "none"
                  /\ AppendedToGuild(last'.guild, last'.command)
                  /\ UNCHANGED all_global_application_commands]_vars

\* C4 witness: a guild-scoped registration was rejected because the global
\* registry holds an entry of the command's name.
C4_Witness ==
    /\ last.op = "add_slash_command"
    /\ last.guild # None
    /\ last.err = "CommandRegistrationError"
    /\ Named(Glob, last.command.name)

\* C4, the accepted case reached: the command was appended to a guild
\* registry that already existed.
C4_AppendedReached ==
    /\ last.op = "add_slash_command"
    /\ last.guild # None
    /\ last.err = "none"
    /\ Len(GuildData(Guilds, last.guild)) = 2

\* The registry a recorded lookup was made on.
LookedUp == ScopeData(last.guild)

\* C5: get(k, default) returns the entry named k if there is one, otherwise
\* the entry whose id is k if there is one, otherwise default.
C5_GetReturnsEntryOrDefault ==
    last.op = "get" =>
        IF last.key.t = "str" /\ Named(LookedUp, last.key.s)
        THEN \E i \in DOMAIN LookedUp : LookedUp[i].name = last.key.s /\ last.ret = LookedUp[i]
        ELSE IF last.key.t = "int" /\ \E i \in DOMAIN LookedUp : Id(LookedUp[i]) = last.key.i
        THEN \E i \in DOMAIN LookedUp : Id(LookedUp[i]) = last.key.i /\ last.ret = LookedUp[i]
        ELSE last.ret = last.default

\* The child command c of a registered group.
GroupChild(c) == SlashCommand(c)

\* C6: get_global_slash_command(path) returns the global entry named n for
\* the path "n", the child c of the global group p for the path "p c", and
\* None when a hop misses.
C6_PathLookupReturnsDesignatedEntry ==
    last.op = "get_global_slash_command" =>
        IF Len(last.names) = 1
        THEN IF Named(Glob, last.names[1])
             THEN \E i \in DOMAIN Glob : Glob[i].name = last.names[1] /\ last.ret = Glob[i]
             ELSE last.ret = NoneVal
        ELSE IF /\ \E i \in DOMAIN Glob : Glob[i].kind = "group" /\ Glob[i].name = last.names[1]
                /\ last.names[2] \in GroupCommandNames
             THEN last.ret = GroupChild(last.names[2])
             ELSE last.ret = NoneVal

\* The entries of `data` a response entry e designates: those of e's name
\* and command type.
Designated(data, e) ==
    {i \in DOMAIN data : data[i].name = e.name /\ CommandType(data[i]) = e.type}

\* The response r lists exactly the commands of the batch (by type and name).
Echoes(r, batch) ==
    {[type |-> r[k].type, name |-> r[k].name] : k \in DOMAIN r}
        = {batch[k] : k \in DOMAIN batch}

\* C7: after the global back-fill, every local global command a response
\* entry designates has the id of that entry (here for the commands of the
\* entry's name and type, and for a response that echoes the batch sent).
C7_GlobalBackfillSetsIds ==
    (last.op = "global_response" /\ Echoes(last.r, sent[1].batch)) =>
        \A k \in DOMAIN last.r :
            \A i \in Designated(Glob, last.r[k]) : Id(Glob[i]) = last.r[k].id

\* C8: the back-fill of a guild scope sets the id of the local command a
\* response entry names and silently ignores an entry naming no local
\* command of the guild, the run continuing.
C8_GuildBackfillIgnoresUnmatched ==
    last.op = "guild_response" =>
        /\ last.err # "AttributeError"
        /\ \A k \in DOMAIN last.r :
               (\A j \in DOMAIN last.r : last.r[j].name = last.r[k].name => j = k)
                   => \A i \in Designated(GuildData(Guilds, last.guild), last.r[k]) :
                          Id(GuildData(Guilds, last.guild)[i]) = last.r[k].id

\* How often x occurs in the sequence seq.
Count(seq, x) == Cardinality({i \in DOMAIN seq : seq[i] = x})

\* C9: the global batch holds the payload of every entry of the global
\* registry exactly once.
C9_GlobalBatchOnePayloadPerEntry ==
    last.op = "connect" =>
        LET batch == sent[1].batch
            payloads == JsonAll(Glob)
        IN  /\ Len(batch) = Len(payloads)
            /\ \A i \in DOMAIN payloads : Count(batch, payloads[i]) = Count(payloads, payloads[i])

\* The scopes of the bulk-upsert calls of the current run, in order.
Scopes_sent == [i \in DOMAIN sent |-> sent[i].scope]

\* C10: a run that ended with no transport failure issued one call for the
\* global scope, first, and then one call for each guild id of the mapping
\* (the guild ids present when the guild loop was entered).
C10_OneCallPerScopeGlobalFirst ==
    (last.op \in {"global_response", "guild_response"} /\ pc \in {"done", "failed"}) =>
        Scopes_sent = <<None>> \o SubSeq(GuildKeys(Guilds), 1, iter.len)

\* Some entry of the global registry has an id the platform assigned.
GlobalIdAssigned == \E i \in DOMAIN Glob : Id(Glob[i]) # 0

\* C11: when the bulk-upsert call of a scope fails, the failure leaves the
\* deployment coroutine, no id of any scope changes (the ids back-filled for
\* earlier scopes are kept), and the run issues no further call: nothing is
\* sent again until the next connect event.
C11_TransportFailurePropagatesAndKeepsIds ==
    [][/\ last'.op = "transport_failure" =>
              /\ pc' = "failed"
              /\ last'.err = "HTTPException"
              /\ UNCHANGED <<all_global_application_commands, all_guild_application_commands>>
              /\ sent' = sent
       /\ pc = "failed" => (sent' = sent \/ last'.op = "connect")]_vars

\* C11 witness: the call of a guild scope failed after the global back-fill
\* had assigned an id, which the global entry still has.
C11_Witness ==
    /\ last.op = "transport_failure"
    /\ last.guild # None
    /\ pc = "failed"
    /\ GlobalIdAssigned

ErrorEvent(data, e) ==
    [name |-> "interaction_command_error", args |-> <<ArgInteraction(data), ArgError(e)>>]

\* C13: when the handler of a slash command raises an exception that is an
\* Exception, the listener catches it, emits exactly one
\* interaction_command_error event carrying (interaction, error), nothing
\* leaves the listener, and the listener stays registered so that a later
\* interaction is dispatched; an exception that is only a BaseException is
\* not caught: it leaves the listener and no event is emitted.
C13_ExceptionCaughtAndReported ==
    (last.op = "slash_interaction" /\ last.invoked # <<>>) =>
        /\ last.runs = 1
        /\ Len(last.invoked) = 1
        /\ last.handler = "Exception" =>
               /\ last.err = "none"
               /\ last.events = <<ErrorEvent(last.data, "Exception")>>
               /\ ENABLED SlashInteraction
        /\ last.handler = "BaseException" =>
               /\ last.err = "BaseException"
               /\ last.events = <<>>
        /\ last.handler = "returns" => (last.err = "none" /\ last.events = <<>>)

\* C13 witness: the handler of a resolved slash command raised an Exception
\* and the event was emitted.
C13_Witness ==
    /\ last.op = "slash_interaction"
    /\ last.handler = "Exception"
    /\ Len(last.invoked) = 1
    /\ Len(last.events) = 1

\* C13 as stated: whatever the handler raises is caught and reported.
C13_AnyExceptionCaught ==
    (last.op = "slash_interaction" /\ last.handler \in {"Exception", "BaseException"}) =>
        /\ last.err = "none"
        /\ last.events = <<ErrorEvent(last.data, last.handler)>>

\* C14: a slash interaction whose resolution misses ends in the not-found
\* outcome and in no other failure: no handler is invoked and the exception
\* that leaves the resolution is Exception("command not found").
C14_EveryMissIsNotFound ==
    (last.op = "slash_interaction" /\ last.invoked = <<>>) => last.err = "CommandNotFound"

\* A name held by no registry, from a guild that has no registry.
C14_MissInGuildWithoutRegistry ==
    /\ last.op = "slash_interaction"
    /\ ~HasGuild(Guilds, last.data.guild_id)
    /\ \A i \in DOMAIN Glob : Glob[i].name # last.data.name
    /\ last.err = "KeyError"

\* A type-2 option naming no sub-group of the matched group, with a nested option.
C14_MissOfSubGroup ==
    /\ last.op = "slash_interaction"
    /\ \E i \in DOMAIN Glob : Glob[i].kind = "group" /\ Glob[i].name = last.data.name
    /\ Len(last.data.options) = 1
    /\ last.data.options[1].type = SubCommandGroupType
    /\ last.data.options[1].name \notin SubGroupNames
    /\ last.data.options[1].options # <<>>
    /\ last.err = "AttributeError"

\* The entry a lookup of the interaction's name matches: the first entry of
\* that name in the global registry, else the first one in the registry of
\* the interaction's guild, else None.
C15_Match ==
    LET name == last.data.name
        gi == {i \in DOMAIN Glob : Glob[i].name = name}
        data == IF HasGuild(Guilds, last.data.guild_id)
                THEN GuildData(Guilds, last.data.guild_id) ELSE <<>>
        di == {i \in DOMAIN data : data[i].name = name}
    IN  IF gi # {} THEN Glob[CHOOSE i \in gi : \A k \in gi : i <= k]
        ELSE IF di # {} THEN data[CHOOSE i \in di : \A k \in di : i <= k]
        ELSE NoneVal

\* C15: a slash interaction whose name matches a bare SlashCommand resolves
\* to (that command, None); one whose name matches a group G resolves, for a
\* type-1 option naming direct child c of G, to (c, G), and for a type-2
\* option naming sub-group s of G with a nested type-1 option naming child d
\* of s, to (d, G).
C15_ResolutionReturnsCommandAndGroup ==
    last.op = "slash_interaction" =>
        /\ C15_Match.kind = "slash" =>
               /\ last.invoked # <<>>
               /\ last.command = C15_Match
               /\ last.ret = NoneVal
        /\ (C15_Match.kind = "group" /\ Len(last.data.options) = 1) =>
               LET o == last.data.options[1]
               IN  /\ (o.type = SubCommandType /\ o.name \in GroupCommandNames) =>
                          /\ last.invoked # <<>>
                          /\ last.command = SlashCommand(o.name)
                          /\ last.ret = C15_Match
                   /\ (/\ o.type = SubCommandGroupType
                       /\ o.name \in SubGroupNames
                       /\ Len(o.options) = 1
                       /\ o.options[1].type = SubCommandType
                       /\ o.options[1].name \in SubGroupCommandNames) =>
                          /\ last.invoked # <<>>
                          /\ last.command = SlashCommand(o.options[1].name)
                          /\ last.ret = C15_Match

\* C15 witness: a command was resolved through a sub-group of a group.
C15_Witness ==
    /\ last.op = "slash_interaction"
    /\ last.invoked # <<>>
    /\ last.ret.kind = "group"
    /\ last.data.options[1].type = SubCommandGroupType
    /\ last.command.name \in SubGroupCommandNames

\* A bare command and a direct child of a group were resolved as well.
C15_BareReached ==
    last.op = "slash_interaction" /\ last.invoked # <<>> /\ last.ret = NoneVal

C15_DirectChildReached ==
    /\ last.op = "slash_interaction"
    /\ last.invoked # <<>>
    /\ last.ret.kind = "group"
    /\ last.data.options[1].type = SubCommandType

\* The resolved options of the last interaction's positional arguments, as
\* the declared options of the resolved command give them.
C16_ResolvedOptions ==
    [i \in DOMAIN options(last.command) |->
        LET d == options(last.command)[i]
            supplied == {o \in {LeafX, LeafY} :
                            /\ o.name = d.name
                            /\ \E k \in DOMAIN last.data.options :
                                   LET e == last.data.options[k]
                                   IN  \/ e = o
                                       \/ \E k2 \in DOMAIN e.options :
                                              \/ e.options[k2] = o
                                              \/ \E k3 \in DOMAIN e.options[k2].options :
                                                     e.options[k2].options[k3] = o}
        IN  IF supplied = {} THEN [tag |-> "option", name |-> d.name, type |-> d.type,
                                   value |-> d.default]
            ELSE LET o == CHOOSE o \in supplied : TRUE
                 IN  [tag |-> "option", name |-> o.name, type |-> o.type,
                      value |-> IF o.type = UserType THEN get_user(o.value) ELSE o.value]]

C16_BareReached ==
    /\ last.op = "slash_interaction"
    /\ last.ret = NoneVal
    /\ Len(last.invoked) = 1
    /\ Len(last.invoked[1].args) = 3
    /\ last.invoked[1].args[1].tag = "interaction"

\* The leaf entries of an option tree, markers opened.
RECURSIVE C17_Leaves(_)
C17_Leaves(opts) ==
    IF opts = <<>> THEN {}
    ELSE (IF Head(opts).type \in {SubCommandType, SubCommandGroupType}
          THEN C17_Leaves(Head(opts).options)
          ELSE {Head(opts)})
         \cup C17_Leaves(Tail(opts))

\* The resolved options among the positional arguments of the handler call.
C17_Parsed ==
    SelectSeq(last.invoked[1].args, LAMBDA a : a.tag = "option")

C17_DefaultReached ==
    /\ last.op = "slash_interaction"
    /\ last.invoked # <<>>
    /\ last.data.options = <<LeafX>>
    /\ Len(C17_Parsed) = 2
    /\ C17_Parsed[1].value = 10
    /\ C17_Parsed[2].value = 5

\* The User Commands of a registry that an interaction's id, or its name, designates.
C18_ById(data) ==
    {data[i] : i \in {k \in DOMAIN data : data[k].kind = "user" /\ Id(data[k]) = last.data.id}}

C18_ByName(data) ==
    {data[i] : i \in {k \in DOMAIN data : data[k].kind = "user" /\ data[k].name = last.data.name}}

\* The registry of the invoking guild, empty when the guild has none.
C18_GuildRegistry ==
    IF HasGuild(Guilds, last.data.guild_id) THEN GuildData(Guilds, last.data.guild_id)
    ELSE <<>>

\* The candidates of the first stage of the order that has any.
C18_Candidates ==
    IF C18_ById(Glob) # {} THEN C18_ById(Glob)
    ELSE IF C18_ByName(Glob) # {} THEN C18_ByName(Glob)
    ELSE IF C18_ById(C18_GuildRegistry) # {} THEN C18_ById(C18_GuildRegistry)
    ELSE C18_ByName(C18_GuildRegistry)

\* C18: a type-2 interaction is resolved among User Commands only, in the
\* order global by id, global by name, invoking guild by id, invoking guild
\* by name; the handler of the resolved command is invoked once with
\* (interaction, user); when nothing matches, the not-found exception leaves
\* the listener and no handler is invoked.
C18_UserResolutionOrder ==
    last.op = "user_interaction" =>
        IF C18_Candidates = {}
        THEN /\ last.err = "CommandNotFound"
             /\ last.invoked = <<>>
             /\ last.events = <<>>
        ELSE /\ Len(last.invoked) = 1
             /\ last.invoked[1].command \in C18_Candidates
             /\ last.invoked[1].command = last.command
             /\ last.invoked[1].attribute = "callback"
             /\ last.invoked[1].args =
                    <<[tag |-> "interaction", name |-> last.data.name, type |-> 2,
                       value |-> last.data.id]>>
                    \o <<[tag |-> "user", name |-> "", type |-> 0,
                          value |-> get_user(last.data.target_id)]>>
             /\ last.events = <<>>
             /\ last.err = IF last.handler = "returns" THEN "none" ELSE last.handler

\* C18 witness: the global registry held one command of the interaction's
\* id and another of its name, and the guild's registry one of its id; the
\* global one found by id was invoked.
C18_Witness ==
    /\ last.op = "user_interaction"
    /\ Len(last.invoked) = 1
    /\ C18_ById(Glob) # {}
    /\ C18_ByName(Glob) \ C18_ById(Glob) # {}

\* A command of the guild's registry was resolved, and a miss was raised.
C18_GuildReached ==
    /\ last.op = "user_interaction"
    /\ Len(last.invoked) = 1
    /\ C18_ById(Glob) \cup C18_ByName(Glob) = {}

C18_MissReached ==
    /\ last.op = "user_interaction"
    /\ last.err = "CommandNotFound"
    /\ Glob # <<>>

\* A MessageCommand of the interaction's name is registered, globally or
\* in the registry of the invoking guild.
C19_MessageCommandRegistered ==
    \/ \E i \in DOMAIN Glob : Glob[i].kind = "message" /\ Glob[i].name = last.data.name
    \/ /\ HasGuild(Guilds, last.data.guild_id)
       /\ \E i \in DOMAIN GuildData(Guilds, last.data.guild_id) :
              /\ GuildData(Guilds, last.data.guild_id)[i].kind = "message"
              /\ GuildData(Guilds, last.data.guild_id)[i].name = last.data.name

\* C19: a type-3 interaction targeting a registered MessageCommand resolves
\* the command, and the command's handler is invoked exactly once, with no
\* exception leaving the listener before the invocation.
C19_MessageHandlerInvokedOnce ==
    (last.op = "message_interaction" /\ C19_MessageCommandRegistered) =>
        /\ Len(last.invoked) = 1
        /\ last.invoked[1].command.kind = "message"
        /\ last.invoked[1].command.name = last.data.name
        /\ last.err # "AttributeError"

\* A type-3 interaction targeting a registered MessageCommand ended in
\* AttributeError with no handler invoked.
C19_AttributeErrorReached ==
    /\ last.op = "message_interaction"
    /\ C19_MessageCommandRegistered
    /\ last.err = "AttributeError"
    /\ last.invoked = <<>>

\* C20: an autocomplete interaction that resolves to a registered slash
\* command invokes the command's autocomplete handler once with the
\* interaction when the command has one, and otherwise ends with no handler
\* invoked and no exception; the command's main callback is never invoked.
C20_AutocompleteInvokesOnlyItsHandler ==
    (last.op = "autocomplete_interaction" /\ last.command # NoneVal) =>
        /\ \A i \in DOMAIN last.invoked : last.invoked[i].attribute # "callback"
        /\ last.attr = "handler" =>
               /\ Len(last.invoked) = 1
               /\ last.invoked[1].command = last.command
               /\ last.invoked[1].attribute = "autocomplete_callback"
               /\ last.invoked[1].args =
                      <<[tag |-> "interaction", name |-> last.data.name, type |-> 1,
                         value |-> last.data.id]>>
        /\ last.attr # "handler" =>
               /\ last.invoked = <<>>
               /\ last.err = "none"

\* An autocomplete interaction resolved to a command constructed by
\* SlashCommand.__init__ and nothing more, and ended in AttributeError.
C20_AttributeErrorReached ==
    /\ last.op = "autocomplete_interaction"
    /\ last.command.kind = "slash"
    /\ last.attr = "absent"
    /\ last.err = "AttributeError"
    /\ last.invoked = <<>>

\* With the attribute set by the caller, the handler was invoked.
C20_HandlerReached ==
    /\ last.op = "autocomplete_interaction"
    /\ last.attr = "handler"
    /\ Len(last.invoked) = 1

\* ------------------------------------------------------------ claims C21..
\* Some registry holds a Message Command named n.
MessageNamed(n) ==
    \/ \E i \in DOMAIN Glob : Glob[i].kind = "message" /\ Glob[i].name = n
    \/ \E g \in DOMAIN Guilds : \E i \in DOMAIN Guilds[g].data :
           Guilds[g].data[i].kind = "message" /\ Guilds[g].data[i].name = n

\* The placement of a command by the guild-or-global rule: appended to the
\* global registry with no guild registry changed when guild is omitted,
\* appended to the guild's registry (created on first use) with the global
\* registry unchanged when it is given.
PlacedByGuildOrGlobal(guild, command) ==
    IF guild = None
    THEN /\ all_global_application_commands' = Append(Glob, command)
         /\ UNCHANGED all_guild_application_commands
    ELSE /\ AppendedToGuild(guild, command)
         /\ UNCHANGED all_global_application_commands

\* C21: add_user_command with a UserCommand raises CommandRegistrationError
\* when a Message Command of the command's name is registered, and otherwise
\* registers the command without error.
C21_UserCommandRegisteredUnlessNameTaken ==
    [][(last'.op = "add_user_command" /\ last'.command.kind = "user") =>
           IF MessageNamed(last'.command.name)
           THEN last'.err = "CommandRegistrationError"
           ELSE /\ last'.err = "none"
                /\ PlacedByGuildOrGlobal(last'.guild, last'.command)]_vars

\* add_user_command was called with a UserCommand while no Message Command
\* was registered, and raised AttributeError.
C21_AttributeErrorReached ==
    /\ last.op = "add_user_command"
    /\ last.command.kind = "user"
    /\ ~MessageNamed(last.command.name)
    /\ last.err = "AttributeError"

\* C22: add_message_command and add_user_command, called with a command of
\* their variant, return and place it by the same guild-or-global rule.
C22_SamePlacementRule ==
    [][(/\ last'.op \in {"add_message_command", "add_user_command"}
        /\ last'.command.kind = (IF last'.op = "add_message_command" THEN "message"
                                 ELSE "user")) =>
           /\ last'.err = "none"
           /\ PlacedByGuildOrGlobal(last'.guild, last'.command)]_vars

\* C22 restricted to add_message_command: the part the code keeps.
C22_MessagePlacement ==
    [][(last'.op = "add_message_command" /\ last'.command.kind = "message") =>
           /\ last'.err = "none"
           /\ PlacedByGuildOrGlobal(last'.guild, last'.command)]_vars

\* C23: add_slash_group(group) returns; when group.is_guild it appends the
\* group to the registry of group.guild_id, created on first use, and leaves
\* the global registry unchanged; otherwise it appends the group to the
\* global registry and leaves every guild registry unchanged; is_guild holds
\* exactly when guild_id is not None.
C23_GroupPlacedByIsGuild ==
    [][last'.op = "add_slash_group" =>
           /\ last'.err = "none"
           /\ last'.command.kind = "group"
           /\ is_guild(last'.command) <=> (last'.command.guild_id # None)
           /\ PlacedByGuildOrGlobal(last'.command.guild_id, last'.command)]_vars

\* C23 witness: a guild group was appended to a registry the guild already had.
C23_Witness ==
    /\ last.op = "add_slash_group"
    /\ last.command.guild_id # None
    /\ Len(GuildData(Guilds, last.command.guild_id)) = 2
    /\ Glob = <<>>

\* A global group was appended to the global registry.
C23_GlobalReached ==
    /\ last.op = "add_slash_group"
    /\ last.command.guild_id = None
    /\ Len(Glob) = 2
    /\ Glob[2] = last.command

\* The name a constructor call resolves: the given name when it is truthy,
\* else the handler's name.
C24_ResolvedName == IF Truthy(last.args.name) THEN last.args.name ELSE last.args.func_name

\* The description it computes: the given one when truthy, else the name.
C24_ComputedDescription ==
    IF Truthy(last.args.description) THEN last.args.description ELSE C24_ResolvedName

\* The three conditions on handler, name and description.
C24_ThreeConditions ==
    /\ last.args.iscoroutine
    /\ C24_ResolvedName.t = "str"
    /\ C24_ComputedDescription.t = "str"
    /\ C24_ComputedDescription.n \in 2..99

\* The options keyword of a Slash Command is falsy or a list of SlashCommandOption.
C24_OptionsValid ==
    last.args.kind = "slash" =>
        \/ ~Truthy(last.args.opts)
        \/ last.args.opts.t = "list" /\ last.args.opts.ok

\* C24: construction of a Slash, User or Message command succeeds exactly
\* when the handler is a coroutine function, the resolved name is a str, the
\* computed description is a str of length in (1,100) and, for a Slash
\* Command, the options given are a list of SlashCommandOption; otherwise it
\* raises TypeError, or ValueError for the length, and produces no object.
C24_ConstructionSucceedsIff ==
    last.op = "command_init" =>
        /\ last.err = "none" <=> (C24_ThreeConditions /\ C24_OptionsValid)
        /\ last.err = "none" =>
               /\ last.obj.kind = last.args.kind
               /\ last.obj.name = C24_ResolvedName
               /\ last.obj.description = C24_ComputedDescription
               /\ last.obj._id = 0
        /\ last.err # "none" =>
               /\ last.obj = NoObject
               /\ last.err = IF /\ last.args.iscoroutine
                                /\ C24_ResolvedName.t = "str"
                                /\ C24_ComputedDescription.t = "str"
                                /\ C24_ComputedDescription.n \notin 2..99
                             THEN "ValueError" ELSE "TypeError"

\* C24 witness: a Slash Command was refused for its options alone.
C24_Witness ==
    /\ last.op = "command_init"
    /\ last.args.kind = "slash"
    /\ C24_ThreeConditions
    /\ last.err = "TypeError"

\* A command was constructed whose description is its two-letter handler name.
C24_ConstructedReached ==
    /\ last.op = "command_init"
    /\ last.err = "none"
    /\ ~Truthy(last.args.name)
    /\ ~Truthy(last.args.description)
    /\ last.obj.description = PyStr(2)

\* C24 as stated: the three conditions alone decide, for every variant.
C24_ThreeConditionsDecide ==
    last.op = "command_init" => (last.err = "none" <=> C24_ThreeConditions)

\* Registries only grow at their end: the entries of `before` keep their
\* positions and their ids in `after`, and an entry added holds id 0.
C25_IdsKept(before, after) ==
    /\ Len(after) >= Len(before)
    /\ \A i \in DOMAIN before : after[i]._id = before[i]._id
    /\ \A i \in DOMAIN after : i > Len(before) => after[i]._id = 0

\* The entries of `before` keep their ids except those a response entry of
\* r names, which hold 0, their former id or an id of r.
C25_IdsFromResponse(before, after, r) ==
    /\ Len(after) = Len(before)
    /\ \A i \in DOMAIN before :
           \/ after[i]._id = before[i]._id
           \/ \E k \in DOMAIN r : r[k].name = before[i].name /\ after[i]._id = r[k].id

\* C25: the id of an entry is 0 when it is registered and changes only in a
\* step of a deployment run that processes a platform response, and then
\* only for an entry the response names, to the id the response gives;
\* registration calls and connect events change no id.
C25_IdsChangeOnlyByBackfill ==
    [][/\ last'.op \notin {"global_response", "guild_response"} =>
              /\ C25_IdsKept(Glob, Glob')
              /\ Len(Guilds') >= Len(Guilds)
              /\ \A g \in DOMAIN Guilds : C25_IdsKept(Guilds[g].data, Guilds'[g].data)
              /\ \A g \in DOMAIN Guilds' :
                     g > Len(Guilds) => C25_IdsKept(<<>>, Guilds'[g].data)
       /\ last'.op \in {"global_response", "guild_response"} =>
              /\ C25_IdsFromResponse(Glob, Glob', last'.r)
              /\ Len(Guilds') = Len(Guilds)
              /\ \A g \in DOMAIN Guilds :
                     C25_IdsFromResponse(Guilds[g].data, Guilds'[g].data, last'.r)
       /\ last'.op = "global_response" => UNCHANGED all_guild_application_commands
       /\ last'.op = "guild_response" =>
              /\ UNCHANGED all_global_application_commands
              /\ \A g \in DOMAIN Guilds :
                     Guilds[g].gid # last'.guild => Guilds'[g] = Guilds[g]]_vars

\* C25 witness: a registration call was made while the global registry held
\* an entry with a back-filled id and another entry whose id is still 0.
C25_Witness ==
    /\ last.op \in RegistrationOps \cup {"add_slash_group"}
    /\ \E i \in DOMAIN Glob : Glob[i]._id # 0
    /\ \E g \in DOMAIN Guilds : \E i \in DOMAIN Guilds[g].data : Guilds[g].data[i]._id = 0

\* The arguments of an option constructor call are in the claim's domain: a
\* str name, a str description, a bool required.
C26_InDomain ==
    /\ last.args.name.t = "str"
    /\ last.args.description.t = "str"
    /\ last.args.required.t = "bool"

\* The type is a wire type: 3..10, as an int or as an enum member.
C26_WireType ==
    /\ last.args.type_.t \in {"int", "enum"}
    /\ last.args.type_.n \in 3..10

\* C26: for a str name, a str description and a bool required, construction
\* of a SlashCommandOption succeeds exactly when the description's length is
\* in (1,100) and the type is a wire type (3..10), and raises otherwise.
C26_OptionConstructionIff ==
    (last.op = "option_init" /\ C26_InDomain) =>
        (last.err = "none" <=> (last.args.description.n \in 2..99 /\ C26_WireType))

\* An option was constructed with an empty description.
C26_EmptyDescriptionReached ==
    /\ last.op = "option_init"
    /\ last.args.module = "discord.ext.commands.slash_options"
    /\ last.args.description = PyStr(0)
    /\ last.err = "none"

\* The description's length left aside, the class of discord/ext/commands
\* accepts exactly the wire types.
C26_ExtTypeCheck ==
    (/\ last.op = "option_init"
     /\ C26_InDomain
     /\ last.args.module = "discord.ext.commands.slash_options") =>
        (last.err = "none" <=> C26_WireType)

\* An option of discord/slash_options.py was constructed with type 11.
C26_CoreTypeReached ==
    /\ last.op = "option_init"
    /\ last.args.module = "discord.slash_options"
    /\ last.args.type_ = PyInt(11)
    /\ last.err = "none"

\* The list the claim describes: one entry of type 2 per allowed_users item,
\* then one of type 1 per allowed_roles item, the permission that of the item
\* (1 for True, 0 for False).
C27_Expected ==
    [i \in DOMAIN last.args.allowed_users |->
        [id |-> last.args.allowed_users[i].id, type |-> 2,
         permission |-> IF last.args.allowed_users[i].allow THEN 1 ELSE 0]]
    \o [i \in DOMAIN last.args.allowed_roles |->
        [id |-> last.args.allowed_roles[i].id, type |-> 1,
         permission |-> IF last.args.allowed_roles[i].allow THEN 1 ELSE 0]]

\* The list read, its permissions as numbers.
C27_Read ==
    [i \in DOMAIN last.obj.items |->
        [id |-> last.obj.items[i].id, type |-> last.obj.items[i].type,
         permission |-> last.obj.items[i].permission.n]]

\* C27: permissions_json of a Slash, User or Message command is read without
\* error and is None exactly when both mappings are empty, and otherwise the
\* list of the allowed_users entries followed by the allowed_roles entries.
C27_PermissionsSerialized ==
    last.op = "permissions_json" =>
        /\ last.err = "none"
        /\ IF last.args.allowed_users = <<>> /\ last.args.allowed_roles = <<>>
           THEN last.obj.t = "None"
           ELSE last.obj.t = "list" /\ C27_Read = C27_Expected

\* C27 for the two variants that define permissions_json.
C27_SlashAndMessageSerialized ==
    (last.op = "permissions_json" /\ last.args.kind # "user") =>
        /\ last.err = "none"
        /\ IF last.args.allowed_users = <<>> /\ last.args.allowed_roles = <<>>
           THEN last.obj.t = "None"
           ELSE last.obj.t = "list" /\ C27_Read = C27_Expected

\* permissions_json was read on a User Command and raised.
C27_UserAttributeErrorReached ==
    /\ last.op = "permissions_json"
    /\ last.args.kind = "user"
    /\ last.err = "AttributeError"

\* ------------------------------------------------------------ claims C28..
\* The operations that process an interaction event.
InteractionOps ==
    {"slash_interaction", "user_interaction", "message_interaction",
     "autocomplete_interaction"}

\* C28: processing an interaction of any kind, whatever its outcome (a handler
\* invoked, a handler that raised, no command found, nothing done), leaves the
\* global registry, the guild mapping and every guild registry as they were,
\* the id of every command included.
C28_InteractionLeavesRegistries ==
    [][last'.op \in InteractionOps
          => UNCHANGED <<all_global_application_commands, all_guild_application_commands>>]_vars

\* A user command carrying an id was resolved and its handler raised.
C28_Witness ==
    /\ last.op = "user_interaction"
    /\ last.invoked # <<>>
    /\ last.handler = "Exception"
    /\ last.command._id # 0

\* A slash interaction found no command.
C28_NotFoundReached ==
    /\ last.op = "slash_interaction"
    /\ last.command = NoneVal
    /\ all_global_application_commands # <<>>

\* An autocomplete interaction whose command has no autocomplete handler:
\* nothing is invoked and nothing is raised.
C28_NoOpReached ==
    /\ last.op = "autocomplete_interaction"
    /\ last.command # NoneVal
    /\ last.invoked = <<>>
    /\ last.err = "none"

\* A message interaction, with a guild registry in place.
C28_MessageReached ==
    /\ last.op = "message_interaction"
    /\ all_guild_application_commands # <<>>

\* ------------------------------------------------------------ claims C29..
\* A listener is suspended on a handler that has not completed.
HungListener == \E k \in DOMAIN tasks : tasks[k] = ListenerTask

\* The slash interaction of guild 1 that names n, without options.
C29_Data(n) == InteractionData("application_command", 1, 1, n, 1, <<>>)

\* The next step is a slash interaction naming n whose command is resolved
\* and whose handler is invoked and returns.
C29_Handled(n) ==
    /\ SlashInteractionWith({<<>>}, {"returns"})
    /\ last'.data = C29_Data(n)
    /\ last'.command # NoneVal
    /\ Len(last'.invoked) = 1
    /\ last'.err = "none"

\* C29: while a listener is suspended on a handler that never completes,
\* every later interaction naming a command the registries resolve can still
\* be processed: its command is resolved and its handler invoked.  The hung
\* handler holds up its own task only.
C29_HungHandlerBlocksOnlyItsTask ==
    HungListener =>
        \A n \in Names :
            resolve_slash_command(all_global_application_commands,
                                  all_guild_application_commands, C29_Data(n)).err = "none"
                => ENABLED C29_Handled(n)

\* A handler was invoked and returned while an earlier listener is still hung.
C29_Witness ==
    /\ HungListener
    /\ last.op = "slash_interaction"
    /\ last.handler = "returns"
    /\ Len(last.invoked) = 1

\* The number of deployment runs suspended at an await.
RunsInProgress ==
    (IF pc \in InProgress THEN 1 ELSE 0)
        + Cardinality({k \in DOMAIN tasks : tasks[k].name = "_deploy_application_commands"})

\* C30: at most one deployment run is in progress at any time, and no
\* interaction is dispatched while a run has not finished its back-fill.
C30_OneRunNoDispatchMeanwhile ==
    [][/\ RunsInProgress' <= 1
       /\ last'.op = "slash_interaction" => RunsInProgress = 0]_vars

\* Two runs are suspended at their awaits at once.
C30_OverlapReached == RunsInProgress = 2

\* A handler was invoked while a run was waiting for the global response.
C30_DispatchDuringRunReached ==
    /\ last.op = "slash_interaction"
    /\ Len(last.invoked) = 1
    /\ pc = "await_global"

\* A run that started second has its global response processed first.
C30_SecondRunFirstReached ==
    /\ last.op = "task_global_response"
    /\ pc = "await_global"

\* ------------------------------------------------------------ claims C31..
\* The registry of the guild of the last interaction, empty when it has none.
C31_GuildRegistry ==
    IF HasGuild(all_guild_application_commands, last.data.guild_id)
    THEN GuildData(all_guild_application_commands, last.data.guild_id)
    ELSE <<>>

\* Position of the first global entry of the last interaction's name, or 0.
C31_InGlobal == utils_get(all_commands(all_global_application_commands), last.data.name)

\* Position of the first entry of that name in the guild's registry, or 0.
C31_InGuild == utils_get(all_commands(C31_GuildRegistry), last.data.name)

C31_GuildReached ==
    /\ last.op = "slash_interaction"
    /\ C31_InGlobal = 0
    /\ C31_InGuild # 0
    /\ last.command = C31_GuildRegistry[C31_InGuild]

\* A global Message Command of the name hides the guild's Slash Command.
C31_HiddenReached ==
    /\ last.op = "slash_interaction"
    /\ C31_InGlobal # 0
    /\ all_global_application_commands[C31_InGlobal].kind = "message"
    /\ C31_InGuild # 0
    /\ C31_GuildRegistry[C31_InGuild].kind = "slash"
    /\ last.command = NoneVal

\* The registry of the scope the last response was for.
C32_Scope == IF last.op = "global_response" THEN Glob ELSE GuildData(Guilds, last.guild)

\* A run has just completed without error, its last response processed.
C32_RunCompleted ==
    /\ pc = "done"
    /\ last.op \in {"global_response", "guild_response"}
    /\ last.err = "none"

\* Entry k is the only entry of the last response that carries its name.
C32_OnlyOfName(k) == \A j \in DOMAIN last.r : last.r[j].name = last.r[k].name => j = k

\* C32: after a deployment run that completes without error, every local
\* entry of a scope, command or group, whose name appears in the response for
\* that scope has, read through its id attribute, the id of that response
\* entry (checked for the scope of the run's last response).
C32_CompletedRunBackfillsIds ==
    C32_RunCompleted =>
        \A i \in DOMAIN C32_Scope, k \in DOMAIN last.r :
            (C32_Scope[i].name = last.r[k].name /\ C32_OnlyOfName(k))
                => Id(C32_Scope[i]) = last.r[k].id

\* The same for the entries that are commands and the only entry of their
\* name in their registry: these do carry the id of the response entry.
C32_CommandsOfUniqueName ==
    C32_RunCompleted =>
        \A i \in DOMAIN C32_Scope, k \in DOMAIN last.r :
            (/\ C32_Scope[i].name = last.r[k].name
             /\ C32_OnlyOfName(k)
             /\ C32_Scope[i].kind # "group"
             /\ \A j \in DOMAIN C32_Scope : C32_Scope[j].name = C32_Scope[i].name => j = i)
                => Id(C32_Scope[i]) = last.r[k].id

\* A completed run whose response names a group of the scope.
C32_GroupNamedReached ==
    /\ C32_RunCompleted
    /\ \E i \in DOMAIN C32_Scope, k \in DOMAIN last.r :
           C32_Scope[i].kind = "group" /\ C32_Scope[i].name = last.r[k].name

\* The commands of the child-set built for the derived type.
C33_DerivedChildren == {last.obj.derived[i].value : i \in DOMAIN last.obj.derived}

\* The declarations of a class body, as a set.
C33_Decls(body) == {body[i] : i \in DOMAIN body}

\* C33: the child-set of a group type holds every command declared on the
\* type and on its ancestor types: a command the subtype declares under the
\* name of an inherited one replaces it, and every inherited command that is
\* not overridden is a child of the subtype.
C33_ChildSetCoversAncestry ==
    last.op = "group_types" =>
        /\ \A d \in C33_Decls(last.args.base) :
               IF \E o \in C33_Decls(last.args.derived) : o.elem = d.elem \/ o.name = d.name
               THEN Declared("Base", d) \notin C33_DerivedChildren
               ELSE Declared("Base", d) \in C33_DerivedChildren
        /\ \A i \in DOMAIN last.args.derived :
               (\A j \in DOMAIN last.args.derived :
                    j > i => last.args.derived[j].name # last.args.derived[i].name)
                   => Declared("Derived", last.args.derived[i]) \in C33_DerivedChildren

\* What the metaclass builds: the child-set of the subtype holds the commands
\* the subtype itself declares and none of the inherited ones.
C33_OwnCommandsOnly ==
    last.op = "group_types" =>
        /\ \A c \in C33_DerivedChildren : c.cls = "Derived"
        /\ \A i \in DOMAIN last.args.derived :
               (\A j \in DOMAIN last.args.derived :
                    j > i => last.args.derived[j].name # last.args.derived[i].name)
                   => Declared("Derived", last.args.derived[i]) \in C33_DerivedChildren
        /\ {last.obj.base[i].value : i \in DOMAIN last.obj.base}
               \subseteq {Declared("Base", d) : d \in C33_Decls(last.args.base)}

\* A subtype that overrides nothing was built over a base type with a command.
C33_InheritedReached ==
    /\ last.op = "group_types"
    /\ last.args.base # <<>>
    /\ last.args.derived = <<>>
    /\ last.obj.base # <<>>

\* The four typed views of a registry.
C34_Views(data) ==
    <<all_slash_commands(data), all_user_commands(data), all_message_commands(data),
      all_slash_command_group(data)>>

\* The entries of a sequence, as a set.
C34_Set(seq) == {seq[i] : i \in DOMAIN seq}

\* The views of `data` are pairwise disjoint, together they hold exactly the
\* entries of data, as many times, and each lists its entries in data's order.
C34_Consistent(data) ==
    LET views == C34_Views(data)
    IN  /\ \A v, w \in 1..4 : v # w => C34_Set(views[v]) \cap C34_Set(views[w]) = {}
        /\ UNION {C34_Set(views[v]) : v \in 1..4} = C34_Set(data)
        /\ Len(views[1]) + Len(views[2]) + Len(views[3]) + Len(views[4]) = Len(data)
        /\ \A v \in 1..4 : views[v] = SelectSeq(data, LAMBDA e : e \in C34_Set(views[v]))

\* The registries of the bot: the global one and that of every guild.
C34_Registries(glob, guilds) == {glob} \cup {guilds[g].data : g \in DOMAIN guilds}

\* From `before` to `after` one entry was added: exactly one view has grown,
\* by that entry at its end, and the others are as they were.
C34_ViewsFollow(before, after) ==
    LET e == after[Len(after)]
    IN  \E v \in 1..4 :
            /\ C34_Views(after)[v] = Append(C34_Views(before)[v], e)
            /\ \A w \in (1..4) \ {v} : C34_Views(after)[w] = C34_Views(before)[w]

\* C34: after any sequence of adds the typed views of every registry are
\* pairwise disjoint, keep insertion order and together hold exactly the
\* entries of the backing list; a view read after an add holds the added entry.
C34_ViewsPartitionBackingList ==
    [][/\ \A data \in C34_Registries(all_global_application_commands',
                                     all_guild_application_commands') : C34_Consistent(data)
       /\ Len(all_global_application_commands') = Len(all_global_application_commands) + 1
              => C34_ViewsFollow(all_global_application_commands,
                                 all_global_application_commands')
       /\ \A g \in DOMAIN all_guild_application_commands :
              Len(all_guild_application_commands'[g].data)
                      = Len(all_guild_application_commands[g].data) + 1
                  => C34_ViewsFollow(all_guild_application_commands[g].data,
                                     all_guild_application_commands'[g].data)]_vars

\* A registry holds entries of two kinds, a group last, and each is in its view.
C34_Witness ==
    \E data \in C34_Registries(all_global_application_commands,
                               all_guild_application_commands) :
        /\ Len(data) = 2
        /\ data[1].kind \in {"slash", "user", "message"}
        /\ data[2].kind = "group"
        /\ all_slash_command_group(data) = <<data[2]>>

\* The entries registered at top level for the last interaction: those of the
\* global registry and those of the registry of the interaction's guild.
C35_TopLevel ==
    C34_Set(Glob)
        \cup (IF HasGuild(Guilds, last.data.guild_id)
              THEN C34_Set(GuildData(Guilds, last.data.guild_id)) ELSE {})

\* The commands reachable from group g: its direct children and the children
\* of its sub-groups.
C35_Children(g) ==
    ({commands_get(g, c) : c \in GroupCommandNames}
        \cup {subgroup_commands_get(groups_get(g, s), d) :
                  s \in SubGroupNames, d \in SubGroupCommandNames}) \ {NoneVal}

\* C35: whenever slash resolution returns (command, group), command is a
\* Slash Command, never a User or Message Command, a group or None.  With
\* group None it is registered at top level of the global registry or of the
\* interaction's guild registry under the interaction's name; otherwise group
\* is the registered group of that name and command is a direct child of it
\* or a child of one of its sub-groups.  When nothing is returned no handler
\* is invoked.
C35_ResolutionReturnsSlashCommandsOnly ==
    last.op = "slash_interaction" =>
        IF last.invoked # <<>>
        THEN /\ last.command.kind = "slash"
             /\ last.ret = NoneVal =>
                    /\ last.command \in C35_TopLevel
                    /\ last.command.name = last.data.name
             /\ last.ret # NoneVal =>
                    /\ last.ret.kind = "group"
                    /\ last.ret \in C35_TopLevel
                    /\ last.ret.name = last.data.name
                    /\ last.command \in C35_Children(last.ret)
        ELSE last.command = NoneVal

\* A guild's Slash Command was returned while the global registry holds a
\* Message Command of another name.
C35_Witness ==
    /\ last.op = "slash_interaction"
    /\ last.invoked # <<>>
    /\ last.ret = NoneVal
    /\ last.command \notin C34_Set(Glob)
    /\ \E i \in DOMAIN Glob : Glob[i].kind = "message"

\* A command was returned through a guild's group.
C35_GroupReached ==
    /\ last.op = "slash_interaction"
    /\ last.invoked # <<>>
    /\ last.ret.kind = "group"
    /\ last.ret \notin C34_Set(Glob)

\* The lookup found a Message Command and nothing was returned.
C35_MessageFoundReached ==
    /\ last.op = "slash_interaction"
    /\ C15_Match.kind = "message"
    /\ last.err = "CommandNotFound"

\* Registration calls: the variant, the command's name and the guild argument.
C36_Calls == [kind : {"slash", "message"}, name : Names, guild : GuildIds \cup {None}]

\* The outcome of call c on the registries glob and guilds.
C36_Apply(c, glob, guilds) ==
    IF c.kind = "slash" THEN add_slash_command(glob, guilds, SlashCommand(c.name), c.guild)
    ELSE add_message_command(glob, guilds, MessageCommand(c.name), c.guild)

\* The outcomes of c then d from the current registries.
C36_Then(c, d) ==
    LET first == C36_Apply(c, Glob, Guilds)
        second == C36_Apply(d, first.glob, first.guilds)
    IN  [first |-> first.err, second |-> second.err, glob |-> second.glob,
         guilds |-> second.guilds]

\* The contents of the registries, order of insertion left aside.
C36_Contents(glob, guilds) ==
    [g \in GuildIds \cup {None} |->
        LET data == IF g = None THEN glob
                    ELSE IF HasGuild(guilds, g) THEN GuildData(guilds, g) ELSE <<>>
        IN  [e \in C34_Set(data) |-> Cardinality({i \in DOMAIN data : data[i] = e})]]

\* c then d and d then c accept or reject each call alike and leave the same
\* registry contents.
C36_Commute(c, d) ==
    LET cd == C36_Then(c, d)
        dc == C36_Then(d, c)
    IN  /\ cd.first = dc.second
        /\ cd.second = dc.first
        /\ C36_Contents(cd.glob, cd.guilds) = C36_Contents(dc.glob, dc.guilds)

\* C36: the outcome of two registration calls, of any variants and scopes,
\* does not depend on their order: each is accepted or rejected alike and the
\* registry contents are the same.
C36_OrderIndependent == \A c, d \in C36_Calls : C36_Commute(c, d)

\* Two calls with different names, and two Message Commands, do commute.
C36_DistinctNamesCommute ==
    \A c, d \in C36_Calls :
        (c.name # d.name \/ (c.kind = "message" /\ d.kind = "message")) => C36_Commute(c, d)

\* Guild first: a guild and the global registry both hold Slash Command "a".
C36_GuildThenGlobalReached ==
    /\ last.op = "add_slash_command"
    /\ last.err = "none"
    /\ last.guild = None
    /\ Glob = <<SlashCommand("a")>>
    /\ HasGuild(Guilds, 1)
    /\ GuildData(Guilds, 1) = <<SlashCommand("a")>>

\* Global first: the guild-scoped call of the same name is rejected.
C36_GlobalThenGuildReached ==
    /\ last.op = "add_slash_command"
    /\ last.err = "CommandRegistrationError"
    /\ last.guild = 1
    /\ last.command = SlashCommand("a")
    /\ Glob = <<SlashCommand("a")>>
    /\ Guilds = <<>>

\* C37: deployment is idempotent on local state: a second run, the platform
\* returning the responses it returned to the first, leaves every registry
\* and every id as the first run left them, sends the batches the first run
\* sent and ends as the first run ended.
C37_SecondRunChangesNothing ==
    [][last'.op = "redeploy" =>
          /\ UNCHANGED <<all_global_application_commands, all_guild_application_commands>>
          /\ sent' = sent
          /\ pc' = pc
          /\ last'.err = last.err]_vars

\* A second run over a global and a guild scope whose ids the first run set.
C37_Witness ==
    /\ last.op = "redeploy"
    /\ pc = "done"
    /\ Len(sent) = 2
    /\ \E i \in DOMAIN Glob : Glob[i]._id # 0
    /\ \E i \in DOMAIN Guilds[1].data : Guilds[1].data[i]._id # 0

\* A second run that fails at the guild back-fill as the first run did.
C37_FailedTwiceReached ==
    /\ last.op = "redeploy"
    /\ pc = "failed"
    /\ last.err = "AttributeError"

\* The steps of a deployment run.
DeploymentOps == {"connect", "global_response", "guild_response", "transport_failure"}

\* A registry with the id fields left out.
C38_WithoutIds(data) == [i \in DOMAIN data |-> [data[i] EXCEPT !._id = 0]]

\* C38: a deployment run, whether it completes or fails, changes nothing but
\* id fields: every step of a run leaves the entries of the global registry
\* and of every guild registry, their order, and the guild ids of the mapping
\* as they were.
C38_RunChangesOnlyIds ==
    [][last'.op \in DeploymentOps =>
          /\ C38_WithoutIds(Glob') = C38_WithoutIds(Glob)
          /\ GuildKeys(Guilds') = GuildKeys(Guilds)
          /\ \A g \in DOMAIN Guilds :
                 C38_WithoutIds(Guilds'[g].data) = C38_WithoutIds(Guilds[g].data)]_vars

\* A run failed in the back-fill of a guild after it had set an id there.
C38_Witness ==
    /\ last.op = "guild_response"
    /\ pc = "failed"
    /\ last.err = "AttributeError"
    /\ \E i \in DOMAIN GuildData(Guilds, last.guild) : GuildData(Guilds, last.guild)[i]._id # 0

\* A run completed over two guilds.
C38_CompletedReached ==
    /\ last.op = "guild_response"
    /\ pc = "done"
    /\ Len(Guilds) = 2

\* A registration call has just succeeded while the run was suspended.
C39_RegisteredMeanwhile ==
    /\ last.op \in RegistrationOps \cup {"add_slash_group"}
    /\ last.err = "none"
    /\ pc \in InProgress

\* C39: a registration call that executes while a deployment run is
\* suspended in a bulk-upsert call, also one that creates the registry of a
\* new guild, does not break the run: when the call returns (here with an
\* empty response, which no back-fill can fail on) the run goes on without
\* error, to the call of the next guild or to its end.
C39_InterleavedRegistrationHarmless ==
    [][(C39_RegisteredMeanwhile /\ last'.op \in {"global_response", "guild_response"}
            /\ last'.r = <<>>)
          => last'.err = "none" /\ pc' # "failed"]_vars

\* The same for a registration made while the global call is pending, before
\* the guild loop has created its iterator: the run goes on.
C39_DuringGlobalCallHarmless ==
    [][(C39_RegisteredMeanwhile /\ pc = "await_global" /\ last'.op = "global_response"
            /\ last'.r = <<>>)
          => last'.err = "none" /\ pc' # "failed"]_vars

\* The guild loop raised RuntimeError: the mapping changed size under its iterator.
C39_RuntimeErrorReached ==
    /\ last.op = "guild_response"
    /\ last.err = "RuntimeError"
    /\ pc = "failed"
    /\ Len(Guilds) > iter.len

====
